---- MODULE Spec2Model ----
(***************************************************************************)
(* A model of hyperion-core: the SPSC command ring (ring_buffer.rs), the   *)
(* command dispatcher and entity map (command_processor.rs), the scene     *)
(* components (components.rs), the systems (systems.rs), the retained      *)
(* render stage (render_state.rs) and the fixed-timestep engine            *)
(* (engine.rs).                                                            *)
(*                                                                         *)
(* Value conventions.                                                      *)
(*  - A byte is an integer 0..255.                                         *)
(*  - A u32 is modelled by the 32-bit integer with the same bit pattern    *)
(*    (two's complement), so u32::MAX = 0xFFFF_FFFF is -1; orderings on    *)
(*    u32 go through u32_lt.                                               *)
(*  - An f32 is modelled by the integer its four little-endian bytes       *)
(*    spell; float arithmetic is integer arithmetic on those values.       *)
(*  - Option<T> is a sequence: None is << >>, Some(x) is << x >>.          *)
(***************************************************************************)
EXTENDS Integers, Sequences, FiniteSets, TLC

\* ------------------------------------------------------------------------
\* Bounds of the model
\* ------------------------------------------------------------------------

\* capacity of the ring's data region, in bytes (RingBufferConsumer::new)
Cap == 14

\* how many chunks of bytes the producer writes in one behaviour
MaxWrites == 3

\* ------------------------------------------------------------------------
\* Option, sequences
\* ------------------------------------------------------------------------

None == << >>

Some(x) == << x >>

IsSome(o) == Len(o) = 1

Unwrap(o) == o[1]

IsPrefix(s, t) == Len(s) <= Len(t) /\ SubSeq(t, 1, Len(s)) = s

Zeros(n) == [i \in 1..n |-> 0]

\* ------------------------------------------------------------------------
\* u32 / f32 and little-endian bytes
\* ------------------------------------------------------------------------

U32_MAX == -1

\* unsigned order on the 32-bit patterns
u32_lt(a, b) ==
    IF (a >= 0) = (b >= 0) THEN a < b ELSE a >= 0

\* u32::from_le_bytes on the four bytes b[off+1..off+4] (off is 0-based)
u32_from_le_bytes(b, off) ==
    b[off + 1] + 256 * b[off + 2] + 65536 * b[off + 3]
      + 16777216 * (IF b[off + 4] >= 128 THEN b[off + 4] - 256 ELSE b[off + 4])

\* f32::from_le_bytes: the float the four bytes spell
f32_from_le_bytes(b, off) == u32_from_le_bytes(b, off)

\* u32::to_le_bytes
u32_to_le_bytes(v) ==
    LET w == IF v < 0 THEN v + 2147483647 + 1 ELSE v
        hi == (w \div 16777216) + (IF v < 0 THEN 128 ELSE 0)
    IN  << w % 256, (w \div 256) % 256, (w \div 65536) % 256, hi >>

\* ------------------------------------------------------------------------
\* f32 arithmetic on times (engine.rs).  A finite time is an integer that
\* counts units of 2^-30 s; every f32 between 2^-6 s and 2 s is such a
\* multiple, and so are the sums and differences of such multiples, so
\* that rounding to 24 significant bits (round to nearest, ties to even)
\* gives exactly the f32 result.  The infinities and NaN are three values
\* outside the finite range, ordered as the infinities are.
\* ------------------------------------------------------------------------

F32_INFINITY == 2000000000

F32_NEG_INFINITY == -2000000000

F32_NAN == 2100000000

f32_is_finite(a) == a > F32_NEG_INFINITY /\ a < F32_INFINITY

\* the spacing of the f32 values around magnitude m, at least q
RECURSIVE f32_quantum(_, _)
f32_quantum(m, q) == IF m \div q < 16777216 THEN q ELSE f32_quantum(m, 2 * q)

\* the f32 nearest to the exact value x, ties to the even significand
f32_round(x) ==
    LET m == IF x < 0 THEN 0 - x ELSE x
        q == f32_quantum(m, 1)
        k == m \div q
        rem == m - k * q
        up == IF 2 * rem > q \/ (2 * rem = q /\ k % 2 = 1) THEN (k + 1) * q ELSE k * q
    IN  IF x < 0 THEN 0 - up ELSE up

\* f32 + f32
f32_add(a, b) ==
    IF a = F32_NAN \/ b = F32_NAN THEN F32_NAN
    ELSE IF ~f32_is_finite(a) /\ ~f32_is_finite(b)
         THEN (IF a = b THEN a ELSE F32_NAN)
    ELSE IF ~f32_is_finite(a) THEN a
    ELSE IF ~f32_is_finite(b) THEN b
    ELSE f32_round(a + b)

\* f32 - f32
f32_sub(a, b) ==
    f32_add(a, IF b = F32_NAN THEN F32_NAN ELSE 0 - b)

\* f32 > f32 and f32 >= f32: false when either side is NaN
f32_gt(a, b) == a # F32_NAN /\ b # F32_NAN /\ a > b

\* a comparison that lets equality through as less
f32_ge_strict(a, b) == a # F32_NAN /\ b # F32_NAN /\ a > b

f32_ge(a, b) == a # F32_NAN /\ b # F32_NAN /\ a >= b

\* FIXED_DT = 1.0 / 60.0 as f32 (0x3C888889), in units of 2^-30 s
FIXED_DT == 17895698

\* FIXED_DT * 10.0, the f32 product
FIXED_DT_TIMES_10 == f32_round(FIXED_DT * 10)

\* ------------------------------------------------------------------------
\* f32 arithmetic on bit patterns (the listener, engine.rs).  A value is the
\* i32 that holds the 32 bits of the f32; the operations unpack it into sign
\* s, significand m < 2^24 and exponent e (value m * 2^e), compute exactly,
\* and round to nearest, ties to even, subnormals and overflow included.
\* Every NaN is the one quiet NaN 0x7FC00000.
\* ------------------------------------------------------------------------

RECURSIVE Pow2(_)
Pow2(n) == IF n = 0 THEN 1 ELSE 2 * Pow2(n - 1)

\* sign, exponent field and fraction field put together
f32_pack_raw(s, ex, frac) ==
    LET mag == ex * 8388608 + frac
    IN  IF s = 1 THEN (mag - 2147483647) - 1 ELSE mag

f32_inf_bits(s) == f32_pack_raw(s, 255, 0)

\* the quiet NaN 0x7FC00000
f32_nan_bits == f32_pack_raw(0, 255, 4194304)

\* f32::to_bits, taken apart
f32_unpack(bits) ==
    LET s == IF bits < 0 THEN 1 ELSE 0
        mag == IF bits < 0 THEN (bits + 2147483647) + 1 ELSE bits
        ex == mag \div 8388608
        frac == mag % 8388608
    IN  IF ex = 255
        THEN [cls |-> IF frac = 0 THEN "inf" ELSE "nan", s |-> s, m |-> 0, e |-> 0]
        ELSE IF ex = 0
        THEN [cls |-> "fin", s |-> s, m |-> frac, e |-> 0 - 149]
        ELSE [cls |-> "fin", s |-> s, m |-> frac + 8388608, e |-> ex - 150]

\* the bits of (-1)^s * m * 2^e for m < 2^24 with m >= 2^23 or e = -149
f32_pack(s, m, e) ==
    IF m < 8388608 THEN f32_pack_raw(s, 0, m)
    ELSE IF e + 150 >= 255 THEN f32_inf_bits(s)
    ELSE f32_pack_raw(s, e + 150, m - 8388608)

\* a non-zero significand shifted up to 24 bits
RECURSIVE f32_norm(_)
f32_norm(u) ==
    IF u.m = 0 \/ u.m >= 8388608 THEN u
    ELSE f32_norm([u EXCEPT !.m = 2 * @, !.e = @ - 1])

\* the f32 nearest to (-1)^s * (k + rb/2 + something below 1/2 if st = 1)
\* * 2^e, ties to even; k < 2^28, and a k below 2^23 comes with e = -149
\* or with rb = st = 0.  Below 2^-152 everything rounds to zero.
RECURSIVE f32_round_pack(_, _, _, _, _)
f32_round_pack(s, k, rb, st, e) ==
    IF e < 0 - 180 THEN f32_pack(s, 0, 0 - 149)
    ELSE IF k >= 16777216 \/ e < 0 - 149
    THEN f32_round_pack(s, k \div 2, k % 2, IF rb = 1 \/ st = 1 THEN 1 ELSE 0, e + 1)
    ELSE IF k # 0 /\ k < 8388608 /\ e > 0 - 149 /\ rb = 0 /\ st = 0
    THEN f32_round_pack(s, 2 * k, 0, 0, e - 1)
    ELSE LET k2 == IF rb = 1 /\ (st = 1 \/ k % 2 = 1) THEN k + 1 ELSE k
         IN  IF k2 = 16777216 THEN f32_pack(s, 8388608, e + 1)
             ELSE f32_pack(s, k2, e)

\* -x
f32_bits_neg(x) ==
    IF f32_unpack(x).cls = "nan" THEN f32_nan_bits
    ELSE IF x < 0 THEN (x + 2147483647) + 1 ELSE (x - 2147483647) - 1

\* x + y of two finite, non-zero values: the one with the larger exponent
\* (the larger significand among equals) leads, the other is shifted down
\* under three guard bits
f32_add_finite(a, b) ==
    LET a_leads == a.e > b.e \/ (a.e = b.e /\ a.m >= b.m)
        big == IF a_leads THEN a ELSE b
        small == IF a_leads THEN b ELSE a
        d == big.e - small.e
        A == big.m * 8
        B == IF d > 27 THEN 0 ELSE (small.m * 8) \div Pow2(d)
        st == IF d > 27 THEN 1
              ELSE IF (small.m * 8) % Pow2(d) # 0 THEN 1 ELSE 0
    IN  IF a.s = b.s THEN f32_round_pack(big.s, A + B, 0, st, big.e - 3)
        ELSE IF st = 1 THEN f32_round_pack(big.s, A - B - 1, 1, 1, big.e - 3)
        ELSE IF A = B THEN 0
        ELSE f32_round_pack(big.s, A - B, 0, 0, big.e - 3)

\* x + y
f32_bits_add(x, y) ==
    LET a == f32_unpack(x)
        b == f32_unpack(y)
    IN  IF a.cls = "nan" \/ b.cls = "nan" THEN f32_nan_bits
        ELSE IF a.cls = "inf" /\ b.cls = "inf"
        THEN (IF a.s = b.s THEN x ELSE f32_nan_bits)
        ELSE IF a.cls = "inf" THEN x
        ELSE IF b.cls = "inf" THEN y
        ELSE IF a.m = 0 /\ b.m = 0
        THEN f32_pack(IF a.s = 1 /\ b.s = 1 THEN 1 ELSE 0, 0, 0 - 149)
        ELSE IF a.m = 0 THEN y
        ELSE IF b.m = 0 THEN x
        ELSE f32_add_finite(a, b)

\* x - y
f32_bits_sub(x, y) == f32_bits_add(x, f32_bits_neg(y))

\* x * y
f32_bits_mul(x, y) ==
    LET a == f32_unpack(x)
        b == f32_unpack(y)
        s == (a.s + b.s) % 2
    IN  IF a.cls = "nan" \/ b.cls = "nan" THEN f32_nan_bits
        ELSE IF a.cls = "inf" \/ b.cls = "inf"
        THEN (IF (a.cls = "fin" /\ a.m = 0) \/ (b.cls = "fin" /\ b.m = 0)
              THEN f32_nan_bits ELSE f32_inf_bits(s))
        ELSE IF a.m = 0 \/ b.m = 0 THEN f32_pack(s, 0, 0 - 149)
        ELSE LET na == f32_norm(a)
                 nb == f32_norm(b)
                 ah == na.m \div 4096
                 al == na.m % 4096
                 bh == nb.m \div 4096
                 bl == nb.m % 4096
                 mid == ah * bl + al * bh
                 lo_sum == (mid % 4096) * 4096 + al * bl
                 hi == ah * bh + mid \div 4096 + lo_sum \div 16777216
                 lo == lo_sum % 16777216
             IN  \* the product is (hi + lo / 2^24) * 2^(na.e + nb.e + 24)
                 IF hi >= 8388608
                 THEN f32_round_pack(s, hi, lo \div 8388608,
                                     IF lo % 8388608 # 0 THEN 1 ELSE 0,
                                     na.e + nb.e + 24)
                 ELSE f32_round_pack(s, 2 * hi + lo \div 8388608,
                                     (lo % 8388608) \div 4194304,
                                     IF lo % 4194304 # 0 THEN 1 ELSE 0,
                                     na.e + nb.e + 23)

\* n more bits of the quotient q with remainder r under the divisor d
RECURSIVE f32_long_div(_, _, _, _)
f32_long_div(q, r, d, n) ==
    IF n = 0 THEN << q, r >>
    ELSE IF 2 * r >= d THEN f32_long_div(2 * q + 1, 2 * r - d, d, n - 1)
    ELSE f32_long_div(2 * q, 2 * r, d, n - 1)

\* x / y
f32_bits_div(x, y) ==
    LET a == f32_unpack(x)
        b == f32_unpack(y)
        s == (a.s + b.s) % 2
    IN  IF a.cls = "nan" \/ b.cls = "nan" THEN f32_nan_bits
        ELSE IF a.cls = "inf"
        THEN (IF b.cls = "inf" THEN f32_nan_bits ELSE f32_inf_bits(s))
        ELSE IF b.cls = "inf" THEN f32_pack(s, 0, 0 - 149)
        ELSE IF b.m = 0
        THEN (IF a.m = 0 THEN f32_nan_bits ELSE f32_inf_bits(s))
        ELSE IF a.m = 0 THEN f32_pack(s, 0, 0 - 149)
        ELSE LET na == f32_norm(a)
                 nb == f32_norm(b)
                 qr == f32_long_div(na.m \div nb.m, na.m % nb.m, nb.m, 25)
             IN  \* the quotient is (qr[1] + qr[2] / nb.m) * 2^(na.e - nb.e - 25)
                 f32_round_pack(s, qr[1],
                                IF 2 * qr[2] >= nb.m THEN 1 ELSE 0,
                                IF 2 * qr[2] # 0 /\ 2 * qr[2] # nb.m THEN 1 ELSE 0,
                                na.e - nb.e - 25)

\* FIXED_DT as bits: 0x888889 * 2^-29 = 0x3C888889
FIXED_DT_bits == f32_pack(0, 8947849, 0 - 29)

\* ------------------------------------------------------------------------
\* CommandType (ring_buffer.rs)
\* ------------------------------------------------------------------------

Noop == 0
SpawnEntity == 1
DespawnEntity == 2
SetPosition == 3
SetRotation == 4
SetScale == 5
SetVelocity == 6
SetTextureLayer == 7
SetMeshHandle == 8
SetRenderPrimitive == 9
SetParent == 10
SetPrimParams0 == 11
SetPrimParams1 == 12
SetListenerPosition == 13

\* CommandType::from_u8: Option<CommandType>
from_u8(v) ==
    IF v \in 0..13 THEN Some(v) ELSE None

\* CommandType::payload_size
payload_size(t) ==
    CASE t \in {Noop, SpawnEntity, DespawnEntity} -> 0
      [] t \in {SetPosition, SetScale, SetVelocity} -> 12
      [] t = SetRotation -> 16
      [] t = SetTextureLayer -> 4
      [] t = SetMeshHandle -> 4
      [] t = SetRenderPrimitive -> 4
      [] t = SetParent -> 4
      [] t \in {SetPrimParams0, SetPrimParams1} -> 16
      [] t = SetListenerPosition -> 12

\* message_size without the payload: the header alone
message_size_header_only(t) == 1 + 4

\* CommandType::message_size
message_size(t) == 1 + 4 + payload_size(t)

\* struct Command
Command(t, id, payload) ==
    [cmd_type |-> t, entity_id |-> id, payload |-> payload]

\* payload[..psize] = bytes, the rest of the 16 bytes stay zero
PadPayload(bytes) == bytes \o Zeros(16 - Len(bytes))

\* an encoding that writes all 16 payload bytes whatever the type
Encode_full_payload(c) ==
    << c.cmd_type >> \o u32_to_le_bytes(c.entity_id) \o c.payload

\* the wire encoding of a command: [type u8][entity_id u32 LE][payload]
Encode(c) ==
    << c.cmd_type >> \o u32_to_le_bytes(c.entity_id)
       \o SubSeq(c.payload, 1, payload_size(c.cmd_type))

\* parse_commands: the flat parser; data is a sequence of bytes, pos 0-based
RECURSIVE parse_from(_, _, _)
parse_from(data, pos, commands) ==
    IF pos >= Len(data) THEN commands
    ELSE LET cmd_byte == data[pos + 1]
             ct == from_u8(cmd_byte)
         IN  IF ~IsSome(ct) THEN commands
             ELSE LET cmd_type == Unwrap(ct)
                      msg_size == message_size(cmd_type)
                      psize == payload_size(cmd_type)
                  IN  IF pos + msg_size > Len(data) THEN commands
                      ELSE parse_from(data, pos + msg_size,
                             Append(commands,
                               Command(cmd_type,
                                       u32_from_le_bytes(data, pos + 1),
                                       PadPayload(SubSeq(data, pos + 6, pos + 5 + psize)))))

parse_commands(data) == parse_from(data, 0, << >>)

\* ------------------------------------------------------------------------
\* glam: vectors, quaternions, column-major 4x4 matrices
\* ------------------------------------------------------------------------

Vec3(x, y, z) == << x, y, z >>

Vec3Add(a, b) == << a[1] + b[1], a[2] + b[2], a[3] + b[3] >>

Vec3Scale(a, k) == << a[1] * k, a[2] * k, a[3] * k >>

Vec3Div(a, k) == << a[1] \div k, a[2] \div k, a[3] \div k >>

\* Mat4::IDENTITY.to_cols_array()
MAT4_IDENTITY == << 1, 0, 0, 0,  0, 1, 0, 0,  0, 0, 1, 0,  0, 0, 0, 1 >>

\* Mat4::from_scale_rotation_translation(scale, rotation, translation)
from_scale_rotation_translation(scale, rot, pos) ==
    LET x == rot[1]  y == rot[2]  z == rot[3]  w == rot[4]
        x2 == x + x  y2 == y + y  z2 == z + z
        xx == x * x2  xy == x * y2  xz == x * z2
        yy == y * y2  yz == y * z2  zz == z * z2
        wx == w * x2  wy == w * y2  wz == w * z2
        sx == scale[1]  sy == scale[2]  sz == scale[3]
    IN  << (1 - (yy + zz)) * sx, (xy + wz) * sx, (xz - wy) * sx, 0,
           (xy - wz) * sy, (1 - (xx + zz)) * sy, (yz + wx) * sy, 0,
           (xz + wy) * sz, (yz - wx) * sz, (1 - (xx + yy)) * sz, 0,
           pos[1], pos[2], pos[3], 1 >>

\* Mat4 * Mat4 on column-major arrays: element (row r, column c) is m[4c + r + 1]
Mat4Mul(a, b) ==
    [i \in 1..16 |->
        LET c == (i - 1) \div 4
            r == (i - 1) % 4
        IN  a[r + 1] * b[4 * c + 1] + a[4 + r + 1] * b[4 * c + 2]
              + a[8 + r + 1] * b[4 * c + 3] + a[12 + r + 1] * b[4 * c + 4]]

\* ------------------------------------------------------------------------
\* components.rs
\* ------------------------------------------------------------------------

\* Children::MAX_CHILDREN; 32 in components.rs, scaled down here so that the
\* inline list fills up within the model's entities
MAX_CHILDREN == 2

\* Children::default()
Children_default == [slots |-> [i \in 1..MAX_CHILDREN |-> 0], count |-> 0]

\* Children::add: << children', accepted >>
Children_add(ch, child_id) ==
    IF ch.count >= MAX_CHILDREN
    THEN << ch, FALSE >>
    ELSE << [slots |-> [ch.slots EXCEPT ![ch.count + 1] = child_id],
             count |-> ch.count + 1], TRUE >>

\* Children::remove: << children', removed >>; the first match is replaced
\* by the last entry
Children_remove(ch, child_id) ==
    LET hits == { i \in 1..ch.count : ch.slots[i] = child_id }
    IN  IF hits = {}
        THEN << ch, FALSE >>
        ELSE LET i == CHOOSE j \in hits : \A k \in hits : j <= k
             IN  << [slots |-> [ch.slots EXCEPT ![i] = ch.slots[ch.count]],
                     count |-> ch.count - 1], TRUE >>

\* Children::as_slice
Children_as_slice(ch) == SubSeq(ch.slots, 1, ch.count)

\* BoundingRadius::default() is 0.5; the radius is only ever copied, and is
\* held in halves
BoundingRadius_default == 1

\* the 14 components every SpawnEntity creates, all at their defaults, plus
\* the optional OverflowChildren (an Option)
SpawnBundle(external_id) ==
    [ Position |-> Vec3(0, 0, 0),
      Rotation |-> << 0, 0, 0, 1 >>,
      Scale |-> Vec3(1, 1, 1),
      Velocity |-> Vec3(0, 0, 0),
      ModelMatrix |-> MAT4_IDENTITY,
      BoundingRadius |-> BoundingRadius_default,
      TextureLayerIndex |-> 0,
      MeshHandle |-> 0,
      RenderPrimitive |-> 0,
      PrimitiveParams |-> Zeros(8),
      ExternalId |-> external_id,
      Parent |-> U32_MAX,
      Children |-> Children_default,
      OverflowChildren |-> None,
      Active |-> TRUE ]

\* ------------------------------------------------------------------------
\* hecs::World as the core uses it
\* ------------------------------------------------------------------------

\* hecs::Entity: an index and a generation
Entity(id, generation) == [id |-> id, generation |-> generation]

\* hecs::Entity::DANGLING
DANGLING == Entity(U32_MAX, U32_MAX)

\* World::new(); arch0 and arch1 are the two archetype tables the core's
\* entities live in (without and with OverflowChildren), in table order
World_new ==
    [generation |-> << >>, pending |-> << >>, comps |-> << >>,
     arch0 |-> << >>, arch1 |-> << >>]

\* the entities alive in a world
LiveEntitiesOf(w) == DOMAIN w.comps

\* World::contains
World_contains(w, e) == e \in DOMAIN w.comps

\* the order in which a query over the base components visits the entities
World_query(w) == w.arch0 \o w.arch1

\* removal from an archetype table: the last row moves into the hole
SwapRemove(tab, e) ==
    IF \A i \in 1..Len(tab) : tab[i] # e THEN tab
    ELSE LET i == CHOOSE j \in 1..Len(tab) : tab[j] = e
             moved == [tab EXCEPT ![i] = tab[Len(tab)]]
         IN  SubSeq(moved, 1, Len(tab) - 1)

\* the handle the next spawn returns: the most recently freed index with its
\* current generation, or a fresh index at generation 1
World_next_entity(w) ==
    IF w.pending # << >>
    THEN LET id == w.pending[Len(w.pending)]
         IN  Entity(id, w.generation[id + 1])
    ELSE Entity(Len(w.generation), 1)

\* World::spawn(bundle): the world afterwards
World_spawn(w, bundle) ==
    LET e == World_next_entity(w)
    IN  [generation |-> IF w.pending # << >> THEN w.generation
                        ELSE Append(w.generation, 1),
         pending |-> IF w.pending # << >>
                     THEN SubSeq(w.pending, 1, Len(w.pending) - 1)
                     ELSE w.pending,
         comps |-> [x \in DOMAIN w.comps \cup {e} |->
                      IF x = e THEN bundle ELSE w.comps[x]],
         arch0 |-> Append(w.arch0, e),
         arch1 |-> w.arch1]

\* World::despawn(entity); a handle that is not alive is an Err, ignored
World_despawn(w, e) ==
    IF ~World_contains(w, e) THEN w
    ELSE [generation |-> [w.generation EXCEPT ![e.id + 1] = @ + 1],
          pending |-> Append(w.pending, e.id),
          comps |-> [x \in DOMAIN w.comps \ {e} |-> w.comps[x]],
          arch0 |-> SwapRemove(w.arch0, e),
          arch1 |-> SwapRemove(w.arch1, e)]

\* world.get::<&mut C>(entity) followed by an assignment, when it is Ok
World_set(w, e, field, value) ==
    IF ~World_contains(w, e) THEN w
    ELSE [w EXCEPT !.comps[e] = [@ EXCEPT ![field] = value]]

\* world.insert_one(entity, OverflowChildren { items }): the entity moves to
\* the archetype with OverflowChildren
World_insert_overflow(w, e, items) ==
    IF ~World_contains(w, e) THEN w
    ELSE [w EXCEPT !.comps[e] = [@ EXCEPT !.OverflowChildren = Some(items)],
                   !.arch0 = SwapRemove(@, e),
                   !.arch1 = IF \E i \in 1..Len(@) : @[i] = e THEN @
                             ELSE Append(@, e)]

\* a remove_one that does nothing
World_remove_overflow_skipped(w, e) == w

\* world.remove_one::<OverflowChildren>(entity): back to the base archetype
World_remove_overflow(w, e) ==
    IF ~World_contains(w, e) \/ ~IsSome(w.comps[e].OverflowChildren) THEN w
    ELSE [w EXCEPT !.comps[e] = [@ EXCEPT !.OverflowChildren = None],
                   !.arch1 = SwapRemove(@, e),
                   !.arch0 = Append(@, e)]

\* ------------------------------------------------------------------------
\* EntityMap (command_processor.rs)
\* ------------------------------------------------------------------------

\* Vec::resize(n, fill)
Resize(v, n, fill) ==
    IF n <= Len(v) THEN SubSeq(v, 1, n)
    ELSE v \o [i \in 1..(n - Len(v)) |-> fill]

\* EntityMap::new
EntityMap_new == [map |-> << >>, free_list |-> << >>, next_id |-> 0]

\* an allocate that recycles the oldest entry of the free list
EntityMap_allocate_fifo(em) ==
    IF em.free_list # << >>
    THEN << [em EXCEPT !.free_list = Tail(@)], Head(em.free_list) >>
    ELSE << [em EXCEPT !.next_id = @ + 1], em.next_id >>

\* EntityMap::allocate: << entity_map', id >>
EntityMap_allocate(em) ==
    IF em.free_list # << >>
    THEN << [em EXCEPT !.free_list = SubSeq(@, 1, Len(@) - 1)],
            em.free_list[Len(em.free_list)] >>
    ELSE << [em EXCEPT !.next_id = @ + 1], em.next_id >>

\* EntityMap::insert
EntityMap_insert(em, external_id, entity) ==
    LET idx == external_id
        grown == IF idx >= Len(em.map) THEN Resize(em.map, idx + 1, None)
                 ELSE em.map
    IN  [em EXCEPT !.map = [grown EXCEPT ![idx + 1] = Some(entity)]]

\* a lookup that takes the id for a 1-based position
EntityMap_get_off_by_one(em, external_id) ==
    IF external_id >= 1 /\ external_id <= Len(em.map)
    THEN em.map[external_id]
    ELSE None

\* EntityMap::get: Option<Entity>
EntityMap_get(em, external_id) ==
    IF external_id >= 0 /\ external_id < Len(em.map)
    THEN em.map[external_id + 1]
    ELSE None

\* EntityMap::iter_mapped: the (external id, entity) pairs, ascending
EntityMap_iter_mapped(em) ==
    { << i - 1, Unwrap(em.map[i]) >> : i \in { j \in 1..Len(em.map) : IsSome(em.map[j]) } }

\* a remove that free-lists every id, allocated or not
EntityMap_remove_unguarded(em, external_id) ==
    LET idx == external_id
        cleared == IF idx >= 0 /\ idx < Len(em.map)
                   THEN [em.map EXCEPT ![idx + 1] = None]
                   ELSE em.map
    IN  [em EXCEPT !.map = cleared, !.free_list = Append(@, external_id)]

\* EntityMap::remove
EntityMap_remove(em, external_id) ==
    LET idx == external_id
        cleared == IF idx >= 0 /\ idx < Len(em.map)
                   THEN [em.map EXCEPT ![idx + 1] = None]
                   ELSE em.map
    IN  [em EXCEPT !.map = cleared,
                   !.free_list = IF u32_lt(external_id, em.next_id)
                                 THEN Append(@, external_id) ELSE @]

\* EntityMap::capacity
EntityMap_capacity(em) == Len(em.map)

\* a shrink_to_fit that truncates the map and leaves the free list alone
EntityMap_shrink_to_fit_map_only(em) ==
    LET used == { i \in 1..Len(em.map) : IsSome(em.map[i]) }
        keep == IF used = {} THEN 0
                ELSE CHOOSE i \in used : \A j \in used : j <= i
    IN  [em EXCEPT !.map = SubSeq(em.map, 1, keep)]

\* EntityMap::shrink_to_fit
EntityMap_shrink_to_fit(em) ==
    LET used == { i \in 1..Len(em.map) : IsSome(em.map[i]) }
        keep == IF used = {} THEN 0
                ELSE CHOOSE i \in used : \A j \in used : j <= i
        map2 == SubSeq(em.map, 1, keep)
    IN  [em EXCEPT !.map = map2,
                   !.free_list = SelectSeq(@, LAMBDA id : id >= 0 /\ id < Len(map2))]

\* ------------------------------------------------------------------------
\* BitSet, DirtyTracker (render_state.rs)
\* ------------------------------------------------------------------------

\* bits per word of a BitSet
WORD_BITS == 64

div_ceil(a, b) == (a + b - 1) \div b

\* BitSet::new(capacity): bits is the set of set indices, nwords the length
\* of the word vector
BitSet_new(capacity) ==
    [bits |-> {}, nwords |-> div_ceil(capacity, WORD_BITS), count |-> 0]

\* BitSet::ensure_capacity
BitSet_ensure_capacity(b, capacity) ==
    LET words_needed == div_ceil(capacity, WORD_BITS)
    IN  IF words_needed > b.nwords THEN [b EXCEPT !.nwords = words_needed] ELSE b

\* BitSet::set
BitSet_set(b, index) ==
    LET g == BitSet_ensure_capacity(b, index + 1)
    IN  IF index \notin g.bits
        THEN [g EXCEPT !.bits = @ \cup {index}, !.count = @ + 1]
        ELSE g

\* BitSet::get
BitSet_get(b, index) ==
    IF index \div WORD_BITS >= b.nwords THEN FALSE ELSE index \in b.bits

\* BitSet::clear
BitSet_clear(b) == [b EXCEPT !.bits = {}, !.count = 0]

\* DirtyTracker::new
DirtyTracker_new(capacity) ==
    [transform_dirty |-> BitSet_new(capacity),
     bounds_dirty |-> BitSet_new(capacity),
     meta_dirty |-> BitSet_new(capacity)]

mark_transform_dirty(dt, idx) ==
    [dt EXCEPT !.transform_dirty = BitSet_set(@, idx)]

mark_bounds_dirty(dt, idx) ==
    [dt EXCEPT !.bounds_dirty = BitSet_set(@, idx)]

mark_meta_dirty(dt, idx) ==
    [dt EXCEPT !.meta_dirty = BitSet_set(@, idx)]

\* the three marks assign_slot and flush_pending_despawns make for a slot
mark_all_dirty(dt, idx) ==
    mark_meta_dirty(mark_bounds_dirty(mark_transform_dirty(dt, idx), idx), idx)

\* a marking that sets all three bits whatever the command asks for
mark_dirty_everything(dt, marks, idx) == mark_all_dirty(dt, idx)

\* the marks a setter of the dispatcher makes for a slot: those of
\* mark_transform_dirty, mark_bounds_dirty, mark_meta_dirty that it calls
mark_dirty(dt, marks, idx) ==
    LET t == IF "transform" \in marks THEN mark_transform_dirty(dt, idx) ELSE dt
        b == IF "bounds" \in marks THEN mark_bounds_dirty(t, idx) ELSE t
    IN  IF "meta" \in marks THEN mark_meta_dirty(b, idx) ELSE b

is_transform_dirty(dt, idx) == BitSet_get(dt.transform_dirty, idx)

is_bounds_dirty(dt, idx) == BitSet_get(dt.bounds_dirty, idx)

is_meta_dirty(dt, idx) == BitSet_get(dt.meta_dirty, idx)

\* DirtyTracker::ensure_capacity
DirtyTracker_ensure_capacity(dt, capacity) ==
    [transform_dirty |-> BitSet_ensure_capacity(dt.transform_dirty, capacity),
     bounds_dirty |-> BitSet_ensure_capacity(dt.bounds_dirty, capacity),
     meta_dirty |-> BitSet_ensure_capacity(dt.meta_dirty, capacity)]

\* DirtyTracker::clear
DirtyTracker_clear(dt) ==
    [transform_dirty |-> BitSet_clear(dt.transform_dirty),
     bounds_dirty |-> BitSet_clear(dt.bounds_dirty),
     meta_dirty |-> BitSet_clear(dt.meta_dirty)]

\* ------------------------------------------------------------------------
\* RenderState (render_state.rs)
\*
\* Each SoA buffer is a sequence with one element per slot; the element is
\* the slot's stride of values (16, 4, 2, 1, 8, 1), so a buffer's length in
\* values is its stride times Len.  panicked records that a method hit a
\* Rust panic (an index out of bounds or an arithmetic overflow).
\* ------------------------------------------------------------------------

\* RenderState::new
RenderState_new ==
    [ matrices |-> << >>,
      gpu_transforms |-> << >>,
      gpu_bounds |-> << >>,
      gpu_render_meta |-> << >>,
      gpu_tex_indices |-> << >>,
      gpu_prim_params |-> << >>,
      gpu_entity_ids |-> << >>,
      gpu_count |-> 0,
      dirty_tracker |-> DirtyTracker_new(0),
      slot_to_entity |-> << >>,
      entity_to_slot |-> << >>,
      pending_despawns |-> << >>,
      staging_cache |-> << >>,
      staging_indices_cache |-> << >>,
      staging_dirty_count |-> 0,
      staging_dirty_ratio |-> << 0, 1 >>,
      panicked |-> FALSE ]

Panic(rs) == [rs EXCEPT !.panicked = TRUE]

\* usize::next_power_of_two
RECURSIVE pow2_at_least(_, _)
pow2_at_least(n, p) == IF p >= n THEN p ELSE pow2_at_least(n, 2 * p)

next_power_of_two(n) == pow2_at_least(n, 1)

\* RenderState::collect: the legacy matrix list
collect(rs, w) ==
    LET q == World_query(w)
    IN  [rs EXCEPT !.matrices = [i \in 1..Len(q) |-> w.comps[q[i]].ModelMatrix]]

\* RenderState::collect_gpu: clear the dirty bits, rebuild the six buffers in
\* query order, count the entities
collect_gpu(rs, w) ==
    LET q == World_query(w)
        hint == rs.gpu_count
        c(i) == w.comps[q[i]]
    IN  [rs EXCEPT
           !.dirty_tracker = DirtyTracker_ensure_capacity(DirtyTracker_clear(@), hint),
           !.gpu_transforms = [i \in 1..Len(q) |-> c(i).ModelMatrix],
           !.gpu_bounds = [i \in 1..Len(q) |->
                             << c(i).Position[1], c(i).Position[2], c(i).Position[3],
                                c(i).BoundingRadius >>],
           !.gpu_render_meta = [i \in 1..Len(q) |->
                                  << c(i).MeshHandle, c(i).RenderPrimitive >>],
           !.gpu_tex_indices = [i \in 1..Len(q) |-> c(i).TextureLayerIndex],
           !.gpu_prim_params = [i \in 1..Len(q) |-> c(i).PrimitiveParams],
           !.gpu_entity_ids = [i \in 1..Len(q) |-> c(i).ExternalId],
           !.gpu_count = Len(q)]

\* RenderState::get_slot: Option<u32>
get_slot(rs, entity) ==
    LET eid == entity.id
    IN  IF eid < 0 \/ eid >= Len(rs.entity_to_slot) THEN None
        ELSE IF rs.entity_to_slot[eid + 1] = U32_MAX THEN None
        ELSE Some(rs.entity_to_slot[eid + 1])

\* RenderState::assign_slot: << render_state', slot >>
assign_slot(rs, entity) ==
    LET slot == rs.gpu_count
        n == rs.gpu_count + 1
        s2e == IF slot >= Len(rs.slot_to_entity)
               THEN Resize(rs.slot_to_entity, next_power_of_two(slot + 1), DANGLING)
               ELSE rs.slot_to_entity
        eid == entity.id
        e2s == IF eid >= Len(rs.entity_to_slot)
               THEN Resize(rs.entity_to_slot, eid + 1, U32_MAX)
               ELSE rs.entity_to_slot
    IN  << [rs EXCEPT
              !.gpu_count = n,
              !.slot_to_entity = [s2e EXCEPT ![slot + 1] = entity],
              !.entity_to_slot = [e2s EXCEPT ![eid + 1] = slot],
              !.gpu_transforms = Resize(@, n, Zeros(16)),
              !.gpu_bounds = Resize(@, n, Zeros(4)),
              !.gpu_render_meta = Resize(@, n, Zeros(2)),
              !.gpu_tex_indices = Resize(@, n, 0),
              !.gpu_prim_params = Resize(@, n, Zeros(8)),
              !.gpu_entity_ids = Resize(@, n, 0),
              !.dirty_tracker =
                  mark_all_dirty(DirtyTracker_ensure_capacity(@, n), slot)],
           slot >>

\* RenderState::write_slot: every component the entity has goes into the
\* slot's place in each buffer; an index past a buffer's end panics
write_slot(rs, slot, w, entity) ==
    IF ~World_contains(w, entity) THEN rs
    ELSE LET s == slot + 1
             c == w.comps[entity]
         IN  IF \/ s > Len(rs.gpu_transforms) \/ s > Len(rs.gpu_bounds)
                \/ s > Len(rs.gpu_render_meta) \/ s > Len(rs.gpu_tex_indices)
                \/ s > Len(rs.gpu_prim_params) \/ s > Len(rs.gpu_entity_ids)
             THEN Panic(rs)
             ELSE [rs EXCEPT
                     !.gpu_transforms[s] = c.ModelMatrix,
                     !.gpu_bounds[s] = << c.Position[1], c.Position[2],
                                          c.Position[3], c.BoundingRadius >>,
                     !.gpu_render_meta[s] = << c.MeshHandle, c.RenderPrimitive >>,
                     !.gpu_tex_indices[s] = c.TextureLayerIndex,
                     !.gpu_prim_params[s] = c.PrimitiveParams,
                     !.gpu_entity_ids[s] = c.ExternalId]

\* RenderState::copy_soa_slot(src, dst)
copy_soa_slot(rs, src, dst) ==
    LET s == src + 1
        d == dst + 1
        short(buf) == s > Len(buf) \/ d > Len(buf)
    IN  IF \/ short(rs.gpu_transforms) \/ short(rs.gpu_bounds)
           \/ short(rs.gpu_render_meta) \/ short(rs.gpu_tex_indices)
           \/ short(rs.gpu_prim_params) \/ short(rs.gpu_entity_ids)
        THEN Panic(rs)
        ELSE [rs EXCEPT
                !.gpu_transforms[d] = rs.gpu_transforms[s],
                !.gpu_bounds[d] = rs.gpu_bounds[s],
                !.gpu_render_meta[d] = rs.gpu_render_meta[s],
                !.gpu_tex_indices[d] = rs.gpu_tex_indices[s],
                !.gpu_prim_params[d] = rs.gpu_prim_params[s],
                !.gpu_entity_ids[d] = rs.gpu_entity_ids[s]]

\* sort_unstable_by(|a, b| b.cmp(a)): descending
RECURSIVE InsertDesc(_, _)
InsertDesc(sorted, x) ==
    IF sorted = << >> THEN << x >>
    ELSE IF x >= Head(sorted) THEN << x >> \o sorted
    ELSE << Head(sorted) >> \o InsertDesc(Tail(sorted), x)

RECURSIVE SortDesc(_)
SortDesc(v) ==
    IF v = << >> THEN << >> ELSE InsertDesc(SortDesc(Tail(v)), Head(v))

\* the filter_map of flush_pending_despawns: the slot entity_to_slot holds
\* for the index of each pending handle, when there is one
RECURSIVE DespawnSlots(_, _)
DespawnSlots(rs, pending) ==
    IF pending = << >> THEN << >>
    ELSE LET o == get_slot(rs, Head(pending))
         IN  (IF IsSome(o) THEN << Unwrap(o) >> ELSE << >>)
               \o DespawnSlots(rs, Tail(pending))

\* an index into entity_to_slot that is in bounds
InE2S(rs, eid) == eid >= 0 /\ eid < Len(rs.entity_to_slot)

\* flush_pending_despawns: the body of the loop for one slot
flush_slot(rs, slot) ==
    IF rs.panicked THEN rs
    ELSE IF rs.gpu_count = 0 \/ slot + 1 > Len(rs.slot_to_entity) THEN Panic(rs)
    ELSE LET last == rs.gpu_count - 1
             dead_entity == rs.slot_to_entity[slot + 1]
             swapped ==
                 IF slot = last THEN rs
                 ELSE LET c == copy_soa_slot(rs, last, slot)
                      IN  IF c.panicked THEN c
                          ELSE IF last + 1 > Len(rs.slot_to_entity) THEN Panic(c)
                          ELSE LET moved_entity == rs.slot_to_entity[last + 1]
                               IN  IF ~InE2S(rs, moved_entity.id) THEN Panic(c)
                                   ELSE [c EXCEPT
                                           !.slot_to_entity[slot + 1] = moved_entity,
                                           !.entity_to_slot[moved_entity.id + 1] = slot,
                                           !.dirty_tracker = mark_all_dirty(@, slot)]
         IN  IF swapped.panicked THEN swapped
             ELSE IF ~InE2S(rs, dead_entity.id) THEN Panic(swapped)
             ELSE [swapped EXCEPT !.entity_to_slot[dead_entity.id + 1] = U32_MAX,
                                  !.gpu_count = @ - 1]

RECURSIVE flush_slots(_, _)
flush_slots(rs, slots) ==
    IF slots = << >> THEN rs
    ELSE flush_slots(flush_slot(rs, Head(slots)), Tail(slots))

\* RenderState::flush_pending_despawns
flush_pending_despawns(rs) ==
    IF rs.pending_despawns = << >> THEN rs
    ELSE LET despawn_slots == SortDesc(DespawnSlots(rs, rs.pending_despawns))
         IN  flush_slots([rs EXCEPT !.pending_despawns = << >>], despawn_slots)

\* Quat::to_euler(EulerRot::ZYX).0, the rotation about Z: the angle
\* atan2(a, b), held as the pair << a, b >>
euler_zyx_z(rot) ==
    LET x == rot[1]  y == rot[2]  z == rot[3]  w == rot[4]
    IN  << 2 * (x * y + w * z), 1 - 2 * (y * y + z * z) >>

\* the 32 words collect_dirty_staging emits for a slot whose buffers were
\* just refreshed
StagingPacket(rs, w, slot) ==
    LET s == slot + 1
        entity == rs.slot_to_entity[s]
        alive == World_contains(w, entity)
        is_root == IF alive THEN w.comps[entity].Parent = U32_MAX ELSE TRUE
        pos == IF alive THEN w.comps[entity].Position ELSE Vec3(0, 0, 0)
        rot == IF alive THEN w.comps[entity].Rotation ELSE << 0, 0, 0, 1 >>
        scale == IF alive THEN w.comps[entity].Scale ELSE Vec3(1, 1, 1)
        head == IF is_root
                THEN << pos[1], pos[2], pos[3], euler_zyx_z(rot), scale[1], scale[2] >>
                       \o Zeros(10)
                ELSE rs.gpu_transforms[s]
    IN  head \o rs.gpu_bounds[s] \o rs.gpu_render_meta[s]
          \o << rs.gpu_tex_indices[s] >> \o rs.gpu_prim_params[s]
          \o << IF is_root THEN 0 ELSE 1 >>

\* the second loop of collect_dirty_staging: refresh each dirty slot from the
\* world, then emit its packet; acc is << render_state, staging >>
RECURSIVE staging_loop(_, _, _)
staging_loop(acc, w, dirty_indices) ==
    IF dirty_indices = << >> \/ acc[1].panicked THEN acc
    ELSE LET rs == acc[1]
             slot == Head(dirty_indices)
         IN  IF slot + 1 > Len(rs.slot_to_entity)
             THEN << Panic(rs), acc[2] >>
             ELSE LET r2 == write_slot(rs, slot, w, rs.slot_to_entity[slot + 1])
                  IN  IF r2.panicked \/ slot + 1 > Len(r2.gpu_transforms)
                      THEN << Panic(r2), acc[2] >>
                      ELSE staging_loop(
                             << r2, acc[2] \o StagingPacket(r2, w, slot) >>,
                             w, Tail(dirty_indices))

\* a scan that stops one slot short of gpu_count
RECURSIVE dirty_scan_short(_, _, _, _)
dirty_scan_short(dt, slot, total, dirty_indices) ==
    IF slot >= total - 1 THEN dirty_indices
    ELSE dirty_scan_short(dt, slot + 1, total,
           IF \/ is_transform_dirty(dt, slot)
              \/ is_bounds_dirty(dt, slot)
              \/ is_meta_dirty(dt, slot)
           THEN Append(dirty_indices, slot)
           ELSE dirty_indices)

\* the first loop of collect_dirty_staging: for slot in 0..total, push the
\* slot if any of its three bits is set
RECURSIVE dirty_scan(_, _, _, _)
dirty_scan(dt, slot, total, dirty_indices) ==
    IF slot >= total THEN dirty_indices
    ELSE dirty_scan(dt, slot + 1, total,
           IF \/ is_transform_dirty(dt, slot)
              \/ is_bounds_dirty(dt, slot)
              \/ is_meta_dirty(dt, slot)
           THEN Append(dirty_indices, slot)
           ELSE dirty_indices)

\* RenderState::collect_dirty_staging:
\* << render_state', [staging, dirty_indices, dirty_count, dirty_ratio] >>
collect_dirty_staging(rs, w) ==
    LET total == rs.gpu_count
    IN  IF total = 0
        THEN << rs, [staging |-> << >>, dirty_indices |-> << >>,
                     dirty_count |-> 0, dirty_ratio |-> << 0, 1 >>] >>
        ELSE LET dt == rs.dirty_tracker
                 dirty_indices == dirty_scan(dt, 0, total, << >>)
                 dirty_count == Len(dirty_indices)
                 done == staging_loop(<< rs, << >> >>, w, dirty_indices)
             IN  IF done[1].panicked
                 THEN << done[1], [staging |-> << >>, dirty_indices |-> << >>,
                                   dirty_count |-> 0, dirty_ratio |-> << 0, 1 >>] >>
                 ELSE << [done[1] EXCEPT !.dirty_tracker = DirtyTracker_clear(@)],
                         [staging |-> done[2],
                          dirty_indices |-> dirty_indices,
                          dirty_count |-> dirty_count,
                          dirty_ratio |-> << dirty_count, total >>] >>

\* RenderState::collect_and_cache_dirty
collect_and_cache_dirty(rs, w) ==
    LET flushed == flush_pending_despawns(rs)
    IN  IF flushed.panicked THEN flushed
        ELSE LET r == collect_dirty_staging(flushed, w)
             IN  IF r[1].panicked THEN r[1]
                 ELSE [r[1] EXCEPT !.staging_cache = r[2].staging,
                                   !.staging_indices_cache = r[2].dirty_indices,
                                   !.staging_dirty_count = r[2].dirty_count,
                                   !.staging_dirty_ratio = r[2].dirty_ratio]

\* ------------------------------------------------------------------------
\* Command dispatcher (command_processor.rs)
\*
\* The three structures a command acts on travel together as a record
\* [world, entity_map, render_state].
\* ------------------------------------------------------------------------

Ecs(w, em, rs) == [world |-> w, entity_map |-> em, render_state |-> rs]

\* the "if let Some(slot) = render_state.get_slot(entity) { mark ... }" tail
\* of the setters; mark is one of the DirtyTracker mark operators
MarkIfSlotted(rs, entity, marks) ==
    LET o == get_slot(rs, entity)
    IN  IF IsSome(o) THEN [rs EXCEPT !.dirty_tracker = mark_dirty(@, marks, Unwrap(o))]
        ELSE rs

\* the wiring both spawn paths do for a spawned entity
WireSpawned(st, external_id, entity) ==
    LET em == EntityMap_insert(st.entity_map, external_id, entity)
        a == assign_slot(st.render_state, entity)
    IN  Ecs(st.world, em, write_slot(a[1], a[2], st.world, entity))

\* process_single_command, CommandType::SpawnEntity
cmd_SpawnEntity(cmd, st) ==
    LET entity == World_next_entity(st.world)
        w == World_spawn(st.world, SpawnBundle(cmd.entity_id))
    IN  WireSpawned([st EXCEPT !.world = w], cmd.entity_id, entity)

\* process_single_command, CommandType::DespawnEntity
cmd_DespawnEntity(cmd, st) ==
    LET o == EntityMap_get(st.entity_map, cmd.entity_id)
    IN  IF ~IsSome(o) THEN st
        ELSE LET entity == Unwrap(o)
             IN  Ecs(World_despawn(st.world, entity),
                     EntityMap_remove(st.entity_map, cmd.entity_id),
                     [st.render_state EXCEPT !.pending_despawns = Append(@, entity)])

\* a setter that also resets the entity's ModelMatrix
cmd_Set_with_matrix(cmd, st, field, value, marks) ==
    LET o == EntityMap_get(st.entity_map, cmd.entity_id)
    IN  IF ~IsSome(o) THEN st
        ELSE LET entity == Unwrap(o)
             IN  Ecs(World_set(World_set(st.world, entity, field, value),
                               entity, "ModelMatrix", MAT4_IDENTITY),
                     st.entity_map,
                     MarkIfSlotted(st.render_state, entity, marks))

\* a setter: one component replaced by value, then the marks
cmd_Set(cmd, st, field, value, marks) ==
    LET o == EntityMap_get(st.entity_map, cmd.entity_id)
    IN  IF ~IsSome(o) THEN st
        ELSE LET entity == Unwrap(o)
             IN  Ecs(World_set(st.world, entity, field, value),
                     st.entity_map,
                     MarkIfSlotted(st.render_state, entity, marks))

PayloadVec3(cmd) ==
    Vec3(f32_from_le_bytes(cmd.payload, 0), f32_from_le_bytes(cmd.payload, 4),
         f32_from_le_bytes(cmd.payload, 8))

PayloadVec4(cmd) ==
    << f32_from_le_bytes(cmd.payload, 0), f32_from_le_bytes(cmd.payload, 4),
       f32_from_le_bytes(cmd.payload, 8), f32_from_le_bytes(cmd.payload, 12) >>

\* process_single_command, SetPrimParams0 / SetPrimParams1: four of the
\* eight parameters, starting at base
cmd_SetPrimParams(cmd, st, base) ==
    LET o == EntityMap_get(st.entity_map, cmd.entity_id)
    IN  IF ~IsSome(o) \/ ~World_contains(st.world, Unwrap(o))
        THEN cmd_Set(cmd, st, "PrimitiveParams", Zeros(8), {"meta"})
        ELSE LET old == st.world.comps[Unwrap(o)].PrimitiveParams
                 p == PayloadVec4(cmd)
                 new == [i \in 1..8 |->
                           IF i > base /\ i <= base + 4 THEN p[i - base] ELSE old[i]]
             IN  cmd_Set(cmd, st, "PrimitiveParams", new, {"meta"})

\* a SetParent that leaves the child on its old parent's lists
unlink_from_old_parent_skipped(w, em, child_entity, child_id) == w

\* SetParent, first part: the child leaves its old parent's Children, or
\* failing that its OverflowChildren, which is removed once empty
unlink_from_old_parent(w, em, child_entity, child_id) ==
    IF ~World_contains(w, child_entity) THEN w
    ELSE LET old_id == w.comps[child_entity].Parent
             o == EntityMap_get(em, old_id)
         IN  IF old_id = U32_MAX \/ ~IsSome(o) THEN w
             ELSE LET old_parent_entity == Unwrap(o)
                  IN  IF ~World_contains(w, old_parent_entity) THEN w
                      ELSE LET r == Children_remove(w.comps[old_parent_entity].Children,
                                                    child_id)
                                ov == w.comps[old_parent_entity].OverflowChildren
                           IN  IF r[2]
                               THEN World_set(w, old_parent_entity, "Children", r[1])
                               ELSE IF ~IsSome(ov) THEN w
                               ELSE LET items == SelectSeq(Unwrap(ov),
                                                           LAMBDA id : id # child_id)
                                        kept == World_set(w, old_parent_entity,
                                                          "OverflowChildren", Some(items))
                                    IN  IF items = << >>
                                        THEN World_remove_overflow(kept, old_parent_entity)
                                        ELSE kept

\* SetParent, last part: the child joins the new parent's Children, or its
\* OverflowChildren when Children::add refuses
link_to_new_parent(w, em, new_parent_id, child_id) ==
    LET o == EntityMap_get(em, new_parent_id)
    IN  IF new_parent_id = U32_MAX \/ ~IsSome(o) THEN w
        ELSE LET parent_entity == Unwrap(o)
             IN  IF ~World_contains(w, parent_entity) THEN w
                 ELSE LET a == Children_add(w.comps[parent_entity].Children, child_id)
                          ov == w.comps[parent_entity].OverflowChildren
                      IN  IF a[2]
                          THEN World_set(w, parent_entity, "Children", a[1])
                          ELSE IF IsSome(ov)
                          THEN World_set(w, parent_entity, "OverflowChildren",
                                         Some(Append(Unwrap(ov), child_id)))
                          ELSE World_insert_overflow(w, parent_entity, << child_id >>)

\* process_single_command, CommandType::SetParent
cmd_SetParent(cmd, st) ==
    LET o == EntityMap_get(st.entity_map, cmd.entity_id)
    IN  IF ~IsSome(o) THEN st
        ELSE LET child_entity == Unwrap(o)
                 new_parent_id == u32_from_le_bytes(cmd.payload, 0)
                 w1 == unlink_from_old_parent(st.world, st.entity_map,
                                              child_entity, cmd.entity_id)
                 w2 == World_set(w1, child_entity, "Parent", new_parent_id)
                 w3 == link_to_new_parent(w2, st.entity_map, new_parent_id,
                                          cmd.entity_id)
             IN  Ecs(w3, st.entity_map,
                     MarkIfSlotted(st.render_state, child_entity, {"transform"}))

\* process_single_command
process_single_command(cmd, st) ==
    CASE cmd.cmd_type = SpawnEntity -> cmd_SpawnEntity(cmd, st)
      [] cmd.cmd_type = DespawnEntity -> cmd_DespawnEntity(cmd, st)
      [] cmd.cmd_type = SetPosition ->
            cmd_Set(cmd, st, "Position", PayloadVec3(cmd), {"transform", "bounds"})
      [] cmd.cmd_type = SetRotation ->
            cmd_Set(cmd, st, "Rotation", PayloadVec4(cmd), {"transform", "bounds"})
      [] cmd.cmd_type = SetScale ->
            cmd_Set(cmd, st, "Scale", PayloadVec3(cmd), {"transform", "bounds"})
      [] cmd.cmd_type = SetVelocity ->
            cmd_Set(cmd, st, "Velocity", PayloadVec3(cmd), {})
      [] cmd.cmd_type = SetTextureLayer ->
            cmd_Set(cmd, st, "TextureLayerIndex", u32_from_le_bytes(cmd.payload, 0),
                    {"meta"})
      [] cmd.cmd_type = SetMeshHandle ->
            cmd_Set(cmd, st, "MeshHandle", u32_from_le_bytes(cmd.payload, 0),
                    {"meta"})
      [] cmd.cmd_type = SetRenderPrimitive ->
            cmd_Set(cmd, st, "RenderPrimitive", cmd.payload[1], {"meta"})
      [] cmd.cmd_type = SetParent -> cmd_SetParent(cmd, st)
      [] cmd.cmd_type = SetPrimParams0 -> cmd_SetPrimParams(cmd, st, 0)
      [] cmd.cmd_type = SetPrimParams1 -> cmd_SetPrimParams(cmd, st, 4)
      [] OTHER -> st

\* spawn_batch over the batch: << world', the entities in insertion order >>
RECURSIVE spawn_batch(_, _, _)
spawn_batch(w, batch, entities) ==
    IF batch = << >> THEN << w, entities >>
    ELSE spawn_batch(World_spawn(w, SpawnBundle(Head(batch).entity_id)),
                     Tail(batch),
                     Append(entities, World_next_entity(w)))

RECURSIVE wire_batch(_, _, _)
wire_batch(st, batch, entities) ==
    IF batch = << >> \/ entities = << >> THEN st
    ELSE wire_batch(WireSpawned(st, Head(batch).entity_id, Head(entities)),
                    Tail(batch), Tail(entities))

\* a batch spawn that creates every entity with ExternalId 0
flush_spawn_batch_zero_ids(batch, st) ==
    LET b == spawn_batch(st.world, [i \in 1..Len(batch) |-> Command(SpawnEntity, 0, << >>)],
                         << >>)
    IN  wire_batch([st EXCEPT !.world = b[1]], batch, b[2])

\* flush_spawn_batch
flush_spawn_batch(batch, st) ==
    LET b == spawn_batch(st.world, batch, << >>)
    IN  wire_batch([st EXCEPT !.world = b[1]], batch, b[2])

\* the length of the run of SpawnEntity commands at the head of commands
RECURSIVE SpawnRun(_)
SpawnRun(commands) ==
    IF commands = << >> \/ Head(commands).cmd_type # SpawnEntity THEN 0
    ELSE 1 + SpawnRun(Tail(commands))

\* process_commands (command_processor.rs)
RECURSIVE process_commands(_, _)
process_commands(commands, st) ==
    IF commands = << >> THEN st
    ELSE LET n == SpawnRun(commands)
         IN  IF n >= 2
             THEN process_commands(SubSeq(commands, n + 1, Len(commands)),
                                   flush_spawn_batch(SubSeq(commands, 1, n), st))
             ELSE process_commands(Tail(commands),
                                   process_single_command(Head(commands), st))

\* ------------------------------------------------------------------------
\* Systems (systems.rs)
\* ------------------------------------------------------------------------

\* velocity_system; a velocity counts position units per FIXED_DT, so that
\* vel * dt is exact for the dt the engine passes
velocity_system(w, dt) ==
    [w EXCEPT !.comps =
        [e \in DOMAIN w.comps |->
            [w.comps[e] EXCEPT !.Position =
                Vec3Add(w.comps[e].Position,
                        Vec3Div(Vec3Scale(w.comps[e].Velocity, dt), FIXED_DT))]]]

\* transform_system
transform_system(w) ==
    [w EXCEPT !.comps =
        [e \in DOMAIN w.comps |->
            [w.comps[e] EXCEPT !.ModelMatrix =
                from_scale_rotation_translation(w.comps[e].Scale, w.comps[e].Rotation,
                                                w.comps[e].Position)]]]

\* count_active
count_active(w) == Cardinality({ e \in DOMAIN w.comps : w.comps[e].Active })

\* a propagation that walks from every entity up to the root of its chain and
\* multiplies on the way; on a self-parent or a cycle the walk has no end, and
\* the entity is left without a matrix
RECURSIVE world_matrix(_, _, _, _)
world_matrix(w, ext_to_entity, e, hops) ==
    LET parents == { pr[2] : pr \in { q \in ext_to_entity :
                        q[1] = w.comps[e].Parent /\ World_contains(w, q[2]) } }
    IN  IF w.comps[e].Parent = U32_MAX \/ parents = { }
        THEN w.comps[e].ModelMatrix
        ELSE IF hops = 0
        THEN << >>
        ELSE LET up == world_matrix(w, ext_to_entity, CHOOSE p \in parents : TRUE, hops - 1)
             IN  IF up = << >> THEN << >> ELSE Mat4Mul(up, w.comps[e].ModelMatrix)

propagate_transforms_to_root(w, ext_to_entity) ==
    [w EXCEPT !.comps =
        [e \in DOMAIN w.comps |->
            [w.comps[e] EXCEPT !.ModelMatrix =
                world_matrix(w, ext_to_entity, e, Cardinality(DOMAIN w.comps))]]]

\* propagate_transforms: every update is computed from the matrices as they
\* were before the pass, then written; ext_to_entity is a set of
\* << external id, entity >> pairs
propagate_transforms(w, ext_to_entity) ==
    LET has_update(e) ==
            /\ w.comps[e].Active
            /\ w.comps[e].Parent # U32_MAX
            /\ \E pr \in ext_to_entity :
                   pr[1] = w.comps[e].Parent /\ World_contains(w, pr[2])
        parent_of(e) ==
            (CHOOSE pr \in ext_to_entity : pr[1] = w.comps[e].Parent)[2]
    IN  [w EXCEPT !.comps =
            [e \in DOMAIN w.comps |->
                IF has_update(e)
                THEN [w.comps[e] EXCEPT !.ModelMatrix =
                        Mat4Mul(w.comps[parent_of(e)].ModelMatrix,
                                w.comps[e].ModelMatrix)]
                ELSE w.comps[e]]]

\* ------------------------------------------------------------------------
\* Engine (engine.rs), the parts that are functions of their arguments
\* ------------------------------------------------------------------------

\* Engine::update, the while loop: << accumulator, ticks fired >> when it
\* exits, from the accumulator and n ticks fired so far
RECURSIVE tick_loop(_, _)
tick_loop(acc, n) ==
    IF f32_ge(acc, FIXED_DT) THEN tick_loop(f32_sub(acc, FIXED_DT), n + 1)
    ELSE << acc, n >>

\* the same with the clamp an eleventh step too high
accumulate_clamped_late(acc, dt) ==
    LET a1 == f32_add(acc, dt)
        late == f32_round(FIXED_DT * 11)
    IN  tick_loop(IF f32_gt(a1, late) THEN late ELSE a1, 0)

\* Engine::update, step 1: << accumulator, ticks fired >> after adding dt,
\* the clamp, and the loop
accumulate(acc, dt) ==
    LET a1 == f32_add(acc, dt)
        a2 == IF f32_gt(a1, FIXED_DT_TIMES_10) THEN FIXED_DT_TIMES_10 ELSE a1
    IN  tick_loop(a2, 0)

\* the listener state [pos, prev_pos, vel], each three f32 bit patterns,
\* after the SetListenerPosition commands of a batch
RECURSIVE listener_after(_, _)
listener_after(commands, l) ==
    IF commands = << >> THEN l
    ELSE LET cmd == Head(commands)
             new_pos == PayloadVec3(cmd)
         IN  IF cmd.cmd_type = SetListenerPosition
             THEN listener_after(Tail(commands),
                    [pos |-> new_pos, prev_pos |-> new_pos,
                     vel |-> [i \in 1..3 |->
                               f32_bits_div(f32_bits_sub(new_pos[i], l.prev_pos[i]),
                                            FIXED_DT_bits)]])
             ELSE listener_after(Tail(commands), l)

\* a fixed_tick that moves the listener by its velocity, not by
\* velocity * FIXED_DT
RECURSIVE listener_ticks_unscaled(_, _, _)
listener_ticks_unscaled(pos, vel, n) ==
    IF n = 0 THEN pos
    ELSE listener_ticks_unscaled([i \in 1..3 |-> f32_bits_add(pos[i], vel[i])],
                                 vel, n - 1)

\* the listener position after n runs of fixed_tick
RECURSIVE listener_ticks(_, _, _)
listener_ticks(pos, vel, n) ==
    IF n = 0 THEN pos
    ELSE listener_ticks([i \in 1..3 |->
                            f32_bits_add(pos[i], f32_bits_mul(vel[i], FIXED_DT_bits))],
                        vel, n - 1)

\* the world after n runs of velocity_system
RECURSIVE ticks(_, _)
ticks(w, n) == IF n = 0 THEN w ELSE ticks(velocity_system(w, FIXED_DT), n - 1)

\* the commands applied one at a time, each through its own call of
\* process_commands
RECURSIVE one_by_one(_, _)
one_by_one(commands, st) ==
    IF commands = << >> THEN st
    ELSE one_by_one(Tail(commands), process_commands(<< Head(commands) >>, st))

\* ------------------------------------------------------------------------
\* State
\* ------------------------------------------------------------------------

VARIABLES
    \* the shared region (ring_buffer.rs header + data)
    data,           \* data region: function 0..Cap-1 -> byte
    write_head,     \* header word 0, written by the producer
    read_head,      \* header word 4, written by the consumer
    \* the producer (external to the core)
    strict,         \* TRUE: the producer writes only complete valid commands
    p_wh,           \* the producer's private write offset (bytes not yet published)
    stream,         \* every byte the producer wrote, in order
    n_writes,       \* how many chunks the producer wrote
    n_pub,          \* how many bytes of stream are published
    unread,         \* bytes written and not yet released by a read_head store
    produced,       \* the commands written (strict producer)
    pub_cmds,       \* how many of them are published
    \* RingBufferConsumer::drain in progress
    c_pc,           \* "idle" | "loop" | "publish"
    c_rh,           \* local rh
    c_wh,           \* local wh (the write_head the drain observed)
    c_rh0,          \* read_head as loaded when the drain began
    c_seen,         \* pub_cmds when the drain loaded write_head
    c_out,          \* local commands; after the drain, its result
    drained,        \* concatenation of the results of all finished drains
    n_drains,       \* finished drains
    header,         \* the header words next to the two heads: capacity,
                    \* heartbeats, supervisor flags, overflow counter
    c_writes,       \* the shared locations the current drain has stored to,
                    \* in order
    \* Engine (engine.rs)
    world,              \* hecs::World
    entity_map,         \* EntityMap
    render_state,       \* RenderState
    accumulator,        \* f32, in units of 2^-30 s
    tick_count,
    listener,           \* [pos, prev_pos, vel]
    \* history, for stating properties
    n_cmds,             \* commands dispatched so far
    n_updates,          \* calls of update so far
    last_op,            \* the operation that ran last
    last_cmds,          \* the commands of the last dispatch
    last_update,        \* << >>, or when update ran last: its dt, the
                        \* accumulator it found, the ticks it fired, and
                        \* what as many calls of
                        \* update(FIXED_DT) as dt holds steps give from
                        \* the same state
    last_staging,       \* << >>, or when collect_dirty_staging ran last: the
                        \* DirtyStagingResult it returned
    one_at_a_time,      \* what the last dispatch gives with its commands
                        \* applied singly from the same state
    map_log,            \* the calls made on the entity map from outside the
                        \* dispatcher: how many, the ids allocate()
                        \* returned, the ids removed after allocate()
                        \* returned them, and what the last call returned
    last_restore        \* << >>, or when snapshot_restore ran last: the
                        \* bytes it was given and how it ended

\* the record of the calls after one more: op with the id it returned
\* (allocate) or was given (insert, remove)
Called(log, op, id) ==
    [n |-> log.n + 1,
     returned |-> IF op = "allocate" THEN log.returned \cup { id } ELSE log.returned,
     freed |-> IF op = "remove" /\ id \in log.returned
               THEN log.freed \cup { id } ELSE log.freed,
     last |-> IF op = "allocate" THEN << id >> ELSE << >>]

\* no call on the entity map yet
NoMapCalls == [n |-> 0, returned |-> { }, freed |-> { }, last |-> << >>]

ringVars == << data, write_head, read_head, strict, p_wh, stream, n_writes, n_pub, unread,
               produced, pub_cmds, c_pc, c_rh, c_wh, c_rh0, c_seen, c_out,
               drained, n_drains, header, c_writes >>

engineVars == << world, entity_map, render_state, accumulator, tick_count, listener,
                 n_cmds, n_updates, last_op, last_cmds, last_update, last_staging,
                 one_at_a_time, map_log, last_restore >>

vars == << ringVars, engineVars >>

\* ------------------------------------------------------------------------
\* The producer
\* ------------------------------------------------------------------------

\* commands the strict producer writes
RingCmds ==
    { Command(Noop, 1, Zeros(16)),
      Command(SetTextureLayer, 258, PadPayload(<< 7, 0, 0, 0 >>)) }

\* a type byte from_u8 rejects
BadTypeByte == 14

\* where the unrestricted producer cuts a command in two
CutAt == 3

\* byte chunks an unrestricted producer may also write: the head of a command
\* (a truncated command), the rest of it, or an unknown type byte
RawChunks ==
    LET e == Encode(Command(SetTextureLayer, 258, PadPayload(<< 7, 0, 0, 0 >>)))
    IN  { SubSeq(e, 1, CutAt), SubSeq(e, CutAt + 1, Len(e)), << BadTypeByte >> }

WriteBytes(d, at, bytes) ==
    [o \in 0..(Cap - 1) |->
        LET k == (o - at + Cap) % Cap
        IN  IF k < Len(bytes) THEN bytes[k + 1] ELSE d[o]]

\* the producer writes a chunk into free space: it never overwrites a byte
\* from read_head up to its own write offset
ProducerWriteBytes(bytes) ==
    /\ n_writes < MaxWrites
    /\ n_writes' = n_writes + 1
    /\ unread + Len(bytes) <= Cap
    /\ unread' = unread + Len(bytes)
    /\ data' = WriteBytes(data, p_wh, bytes)
    /\ p_wh' = (p_wh + Len(bytes)) % Cap
    /\ stream' = stream \o bytes

ProducerWrite ==
    \E c \in RingCmds :
        /\ ProducerWriteBytes(Encode(c))
        /\ produced' = Append(produced, c)
        /\ UNCHANGED engineVars
        /\ UNCHANGED << header, c_writes >>
        /\ UNCHANGED << write_head, read_head, strict, n_pub, pub_cmds, c_pc,
                        c_rh, c_wh, c_rh0, c_seen, c_out, drained, n_drains >>

ProducerWriteRaw ==
    \E bytes \in RawChunks :
        /\ ~strict
        /\ ProducerWriteBytes(bytes)
        /\ UNCHANGED engineVars
        /\ UNCHANGED << header, c_writes >>
        /\ UNCHANGED << write_head, read_head, strict, n_pub, produced, pub_cmds,
                        c_pc, c_rh, c_wh, c_rh0, c_seen, c_out, drained, n_drains >>

\* release store of write_head
ProducerPublish ==
    /\ write_head # p_wh
    /\ write_head' = p_wh
    /\ n_pub' = Len(stream)
    /\ pub_cmds' = Len(produced)
    /\ UNCHANGED engineVars
    /\ UNCHANGED << header, c_writes >>
    /\ UNCHANGED << data, read_head, strict, p_wh, stream, n_writes, unread, produced, c_pc, c_rh,
                    c_wh, c_rh0, c_seen, c_out, drained, n_drains >>

\* ------------------------------------------------------------------------
\* RingBufferConsumer (ring_buffer.rs)
\* ------------------------------------------------------------------------

\* a read that does not wrap: past the end of the data region it finds zero
read_byte_unwrapped(offset) == IF offset < Cap THEN data[offset] ELSE 0

\* read_byte: one byte of the circular data region
read_byte(offset) == data[offset % Cap]

\* read_bytes: len bytes from offset, wrapping
read_bytes(offset, len) == [i \in 1..len |-> read_byte(offset + i - 1)]

\* available without the wrapped case
available_no_wrap(rh, wh) == wh - rh

\* the bytes available between rh and wh (available(), and drain's avail)
available(rh, wh) ==
    IF wh >= rh THEN wh - rh ELSE Cap - rh + wh

\* drain, first two lines: load read_head (relaxed), write_head (acquire)
DrainBegin ==
    /\ c_pc = "idle"
    /\ c_rh' = read_head
    /\ c_rh0' = read_head
    /\ c_wh' = write_head
    /\ c_seen' = pub_cmds
    /\ c_out' = << >>
    /\ c_pc' = "loop"
    /\ UNCHANGED engineVars
    /\ c_writes' = << >>
    /\ UNCHANGED header
    /\ UNCHANGED << data, write_head, read_head, strict, p_wh, stream, n_writes, n_pub, unread,
                    produced, pub_cmds, drained, n_drains >>

\* a drain that steps over a type byte from_u8 rejects and goes on with the
\* byte after it
DrainStep_skipping_unknown ==
    /\ c_pc = "loop"
    /\ IF c_rh = c_wh
       THEN /\ c_pc' = "publish"
            /\ UNCHANGED << c_rh, c_out >>
       ELSE LET type_byte == read_byte(c_rh)
                ct == from_u8(type_byte)
            IN  IF ~IsSome(ct)
                THEN /\ c_rh' = (c_rh + 1) % Cap
                     /\ c_pc' = "loop"
                     /\ UNCHANGED c_out
                ELSE LET cmd_type == Unwrap(ct)
                         msg_size == message_size(cmd_type)
                         avail == available(c_rh, c_wh)
                     IN  IF avail < msg_size
                         THEN /\ c_pc' = "publish"
                              /\ UNCHANGED << c_rh, c_out >>
                         ELSE LET id_bytes == read_bytes(c_rh + 1, 4)
                                  entity_id == u32_from_le_bytes(id_bytes, 0)
                                  psize == payload_size(cmd_type)
                                  payload == PadPayload(read_bytes(c_rh + 5, psize))
                              IN  /\ c_out' = Append(c_out,
                                                 Command(cmd_type, entity_id, payload))
                                  /\ c_rh' = (c_rh + msg_size) % Cap
                                  /\ c_pc' = "loop"
    /\ UNCHANGED engineVars
    /\ UNCHANGED << header, c_writes >>
    /\ UNCHANGED << data, write_head, read_head, strict, p_wh, stream, n_writes, n_pub, unread,
                    produced, pub_cmds, c_wh, c_rh0, c_seen, drained, n_drains >>

\* drain, one evaluation of the loop condition and of the loop body
DrainStep ==
    /\ c_pc = "loop"
    /\ IF c_rh = c_wh
       THEN /\ c_pc' = "publish"
            /\ UNCHANGED << c_rh, c_out >>
       ELSE LET type_byte == read_byte(c_rh)
                ct == from_u8(type_byte)
            IN  IF ~IsSome(ct)
                THEN /\ c_pc' = "publish"
                     /\ UNCHANGED << c_rh, c_out >>
                ELSE LET cmd_type == Unwrap(ct)
                         msg_size == message_size(cmd_type)
                         avail == available(c_rh, c_wh)
                     IN  IF avail < msg_size
                         THEN /\ c_pc' = "publish"
                              /\ UNCHANGED << c_rh, c_out >>
                         ELSE LET id_bytes == read_bytes(c_rh + 1, 4)
                                  entity_id == u32_from_le_bytes(id_bytes, 0)
                                  psize == payload_size(cmd_type)
                                  payload == PadPayload(read_bytes(c_rh + 5, psize))
                              IN  /\ c_out' = Append(c_out,
                                                 Command(cmd_type, entity_id, payload))
                                  /\ c_rh' = (c_rh + msg_size) % Cap
                                  /\ c_pc' = "loop"
    /\ UNCHANGED engineVars
    /\ UNCHANGED << header, c_writes >>
    /\ UNCHANGED << data, write_head, read_head, strict, p_wh, stream, n_writes, n_pub, unread,
                    produced, pub_cmds, c_wh, c_rh0, c_seen, drained, n_drains >>

\* a drain that publishes the write_head it loaded instead of the offset its
\* loop reached
DrainEnd_to_write_head ==
    /\ c_pc = "publish"
    /\ read_head' = c_wh
    /\ unread' = unread - ((c_wh - read_head + Cap) % Cap)
    /\ drained' = drained \o c_out
    /\ n_drains' = IF n_drains < 2 THEN n_drains + 1 ELSE n_drains
    /\ c_pc' = "idle"
    /\ UNCHANGED engineVars
    /\ c_writes' = Append(c_writes, "read_head")
    /\ UNCHANGED header
    /\ UNCHANGED << data, write_head, strict, p_wh, stream, n_writes, n_pub, produced,
                    pub_cmds, c_rh, c_wh, c_rh0, c_seen, c_out >>

\* a drain that zeroes the bytes it has consumed before it publishes
DrainEnd_clearing ==
    /\ c_pc = "publish"
    /\ data' = WriteBytes(data, read_head, Zeros((c_rh - read_head + Cap) % Cap))
    /\ read_head' = c_rh
    /\ unread' = unread - ((c_rh - read_head + Cap) % Cap)
    /\ drained' = drained \o c_out
    /\ n_drains' = IF n_drains < 2 THEN n_drains + 1 ELSE n_drains
    /\ c_pc' = "idle"
    /\ UNCHANGED engineVars
    /\ c_writes' = c_writes \o << "data", "read_head" >>
    /\ UNCHANGED header
    /\ UNCHANGED << write_head, strict, p_wh, stream, n_writes, n_pub, produced,
                    pub_cmds, c_rh, c_wh, c_rh0, c_seen, c_out >>

\* drain, last lines: set_read_head (release store), return commands
DrainEnd ==
    /\ c_pc = "publish"
    /\ read_head' = c_rh
    /\ unread' = unread - ((c_rh - read_head + Cap) % Cap)
    /\ drained' = drained \o c_out
    /\ n_drains' = IF n_drains < 2 THEN n_drains + 1 ELSE n_drains
    /\ c_pc' = "idle"
    /\ UNCHANGED engineVars
    /\ c_writes' = Append(c_writes, "read_head")
    /\ UNCHANGED header
    /\ UNCHANGED << data, write_head, strict, p_wh, stream, n_writes, n_pub, produced,
                    pub_cmds, c_rh, c_wh, c_rh0, c_seen, c_out >>

\* ------------------------------------------------------------------------
\* Engine (engine.rs) and the render stage's entry points
\* ------------------------------------------------------------------------

\* external ids the slot-level commands address
NumExt == 2

\* commands dispatched in one behaviour
MaxCmds == 4

\* fixed ticks in one behaviour
MaxTicks == 1

\* longest frame time, in half ticks
MaxDt == 2

\* most ticks' worth of time given to one update
MaxSteps == 11

\* updates in one behaviour of the clock
MaxUpdates == 2

EcsNow == Ecs(world, entity_map, render_state)

Cmd(t, id, bytes) == Command(t, id, PadPayload(bytes))

\* what every operation other than a dispatch records
NoDispatch ==
    /\ last_cmds' = << >>
    /\ one_at_a_time' = Ecs(world', entity_map', render_state')
    /\ UNCHANGED << n_cmds >>

\* Engine::process_commands
Engine_process_commands(commands) ==
    /\ ~render_state.panicked
    /\ n_cmds + Len(commands) <= MaxCmds
    /\ listener' = listener_after(commands, listener)
    /\ LET st == process_commands(commands, EcsNow)
       IN  /\ world' = st.world
           /\ entity_map' = st.entity_map
           /\ render_state' = st.render_state
    /\ one_at_a_time' = one_by_one(commands, EcsNow)
    /\ last_cmds' = commands
    /\ last_update' = << >>
    /\ last_staging' = << >>
    /\ UNCHANGED last_restore
    /\ UNCHANGED map_log
    /\ UNCHANGED n_updates
    /\ n_cmds' = n_cmds + Len(commands)
    /\ UNCHANGED << accumulator, tick_count >>
    /\ UNCHANGED ringVars

\* a variable-step update: whatever the accumulated time, at most one
\* fixed_tick per call
update_one_tick(eng, dt) ==
    LET at == accumulate(eng.accumulator, dt)
        n == IF at[2] > 0 THEN 1 ELSE 0
        w1 == ticks(eng.world, n)
        w2 == transform_system(w1)
        w3 == propagate_transforms(w2, EntityMap_iter_mapped(eng.entity_map))
    IN  [eng EXCEPT !.accumulator = at[1],
                    !.tick_count = @ + n,
                    !.listener.pos = listener_ticks(@, eng.listener.vel, n),
                    !.world = w3,
                    !.render_state = collect_gpu(collect(@, w3), w3)]

\* Engine::update on the engine's fields, as a function of them and of dt
update(eng, dt) ==
    LET at == accumulate(eng.accumulator, dt)
        n == at[2]
        w1 == ticks(eng.world, n)
        w2 == transform_system(w1)
        w3 == propagate_transforms(w2, EntityMap_iter_mapped(eng.entity_map))
    IN  [eng EXCEPT !.accumulator = at[1],
                    !.tick_count = @ + n,
                    !.listener.pos = listener_ticks(@, eng.listener.vel, n),
                    !.world = w3,
                    !.render_state = collect_gpu(collect(@, w3), w3)]

\* the engine after n calls of update(dt)
RECURSIVE updates(_, _, _)
updates(eng, dt, n) == IF n = 0 THEN eng ELSE updates(update(eng, dt), dt, n - 1)

\* Engine::interpolation_alpha: accumulator / FIXED_DT for an accumulator in
\* 0 .. FIXED_DT, counted in units of 2^-24 and rounded to nearest, ties to
\* even; that is the f32 quotient wherever it is 1/2 or more.  bits is the
\* number of quotient bits still to produce, q the quotient so far and r the
\* remainder.
RECURSIVE alpha_bits(_, _, _)
alpha_bits(r, q, bits) ==
    IF bits = 0
    THEN (IF 2 * r > FIXED_DT \/ (2 * r = FIXED_DT /\ q % 2 = 1) THEN q + 1 ELSE q)
    ELSE IF 2 * r >= FIXED_DT THEN alpha_bits(2 * r - FIXED_DT, 2 * q + 1, bits - 1)
         ELSE alpha_bits(2 * r, 2 * q, bits - 1)

interpolation_alpha(acc) ==
    IF ~f32_is_finite(acc) THEN acc
    ELSE LET m == IF acc < 0 THEN 0 - acc ELSE acc
             a == (m \div FIXED_DT) * 16777216 + alpha_bits(m % FIXED_DT, 0, 24)
         IN  IF acc < 0 THEN 0 - a ELSE a

\* the engine's fields
EngineNow ==
    [world |-> world, entity_map |-> entity_map, render_state |-> render_state,
     accumulator |-> accumulator, tick_count |-> tick_count, listener |-> listener]

\* how many calls of update(FIXED_DT) the frame time dt = k * FIXED_DT
\* stands for, 0 when it is no such product with k in 1 .. MaxSteps
StepsOf(dt) ==
    IF \E k \in 1..MaxSteps : dt = f32_round(FIXED_DT * k)
    THEN CHOOSE k \in 1..MaxSteps : dt = f32_round(FIXED_DT * k)
    ELSE 0

\* Engine::update
Engine_update(dt) ==
    LET e == update(EngineNow, dt)
    IN  /\ ~render_state.panicked
        /\ accumulator' = e.accumulator
        /\ tick_count' = e.tick_count
        /\ listener' = e.listener
        /\ world' = e.world
        /\ render_state' = e.render_state
        /\ last_update' = << [dt |-> dt, accumulator |-> accumulator,
                              ticks |-> e.tick_count - tick_count,
                              stepwise |-> updates(EngineNow, FIXED_DT, StepsOf(dt))] >>
        /\ n_updates' = n_updates + 1
        /\ last_staging' = << >>
        /\ UNCHANGED last_restore
        /\ UNCHANGED map_log
        /\ UNCHANGED entity_map
        /\ NoDispatch
        /\ UNCHANGED ringVars

\* a call of a RenderState method that takes the world by reference
RenderStage(rs) ==
    /\ ~render_state.panicked
    /\ render_state' = rs
    /\ UNCHANGED << world, entity_map, accumulator, tick_count, listener >>
    /\ last_update' = << >>
    /\ UNCHANGED n_updates
    /\ NoDispatch
    /\ UNCHANGED ringVars

\* the slot-level commands
SlotCmds ==
    UNION { { Cmd(SpawnEntity, i, << >>),
              Cmd(DespawnEntity, i, << >>),
              Cmd(SetPosition, i, << 1, 0, 0, 0 >>) } : i \in 0..(NumExt - 1) }

PushSlotCommand ==
    \E c \in SlotCmds :
        /\ Engine_process_commands(<< c >>)
        /\ last_op' = "process_commands"

Update ==
    \E dt \in { f32_round((FIXED_DT \div 2) * k) : k \in 1..MaxDt } :
        /\ tick_count + accumulate(accumulator, dt)[2] <= MaxTicks
        /\ Engine_update(dt)
        /\ last_op' = "update"

FlushPendingDespawns ==
    /\ RenderStage(flush_pending_despawns(render_state))
    /\ last_staging' = << >>
    /\ UNCHANGED last_restore
    /\ UNCHANGED map_log
    /\ last_op' = "flush_pending_despawns"

CollectDirtyStaging ==
    /\ RenderStage(collect_dirty_staging(render_state, world)[1])
    /\ last_staging' = << collect_dirty_staging(render_state, world)[2] >>
    /\ UNCHANGED last_restore
    /\ UNCHANGED map_log
    /\ last_op' = "collect_dirty_staging"

CollectGpu ==
    /\ RenderStage(collect_gpu(render_state, world))
    /\ last_staging' = << >>
    /\ UNCHANGED last_restore
    /\ UNCHANGED map_log
    /\ last_op' = "collect_gpu"

\* longest batch handed to one dispatch
MaxBatch == 3

\* the commands that come in batches: spawns that run together, a repeated
\* id, and commands that split a run
BatchCmds ==
    { Cmd(SpawnEntity, 0, << >>), Cmd(SpawnEntity, 1, << >>),
      Cmd(DespawnEntity, 0, << >>),
      Cmd(SetPosition, 0, << 1, 0, 0, 0,  2, 0, 0, 0,  3, 0, 0, 0 >>),
      Cmd(SetParent, 1, u32_to_le_bytes(0)) }

\* the batches of exactly n commands
RECURSIVE BatchesOf(_)
BatchesOf(n) ==
    IF n = 0 THEN { << >> }
    ELSE { Append(b, c) : b \in BatchesOf(n - 1), c \in BatchCmds }

PushBatch ==
    \E n \in 2..MaxBatch : \E commands \in BatchesOf(n) :
        /\ Engine_process_commands(commands)
        /\ last_op' = "process_commands"

\* one command of every type, for a mapped and for an unmapped id
AllCmds ==
    UNION { { Cmd(t, i, << 1, 0, 0, 0,  2, 0, 0, 0,  3, 0, 0, 0,  4, 0, 0, 0 >>) :
                t \in Noop..SetListenerPosition } : i \in 0..1 }

PushCommand ==
    \E c \in AllCmds :
        /\ Engine_process_commands(<< c >>)
        /\ last_op' = "process_commands"

\* the ids of the hierarchy commands: a parent, enough children to fill its
\* Children, and one more
HierIds == 0..(MAX_CHILDREN + 1)

\* the parents a SetParent names: two entities and "none"
HierParents == { 0, 1, U32_MAX }

\* the ids that are despawned and spawned again: the parent and one child
RespawnIds == { 0, 1 }

HierCmds ==
    { Cmd(SetParent, i, u32_to_le_bytes(p)) : i \in HierIds, p \in HierParents }
      \cup { Cmd(SpawnEntity, i, << >>) : i \in RespawnIds }
      \cup { Cmd(DespawnEntity, i, << >>) : i \in RespawnIds }

PushHierCommand ==
    \E c \in HierCmds :
        /\ Engine_process_commands(<< c >>)
        /\ last_op' = "process_commands"

\* the engine after one batch that spawns every id of HierIds
HierInit ==
    LET spawns == [i \in 1..(MAX_CHILDREN + 2) |-> Cmd(SpawnEntity, i - 1, << >>)]
        st == process_commands(spawns, Ecs(World_new, EntityMap_new, RenderState_new))
    IN  /\ world = st.world
        /\ entity_map = st.entity_map
        /\ render_state = st.render_state
        /\ accumulator = 0
        /\ tick_count = 0
        /\ listener = [pos |-> Vec3(0, 0, 0), prev_pos |-> Vec3(0, 0, 0),
                       vel |-> Vec3(0, 0, 0)]
        /\ n_cmds = 0
        /\ last_op = "process_commands"
        /\ last_cmds = spawns
        /\ last_update = << >>
        /\ last_staging = << >>
        /\ last_restore = << >>
        /\ map_log = NoMapCalls
        /\ n_updates = 0
        /\ one_at_a_time = st

\* Engine::new
EngineInit ==
    /\ world = World_new
    /\ entity_map = EntityMap_new
    /\ render_state = RenderState_new
    /\ accumulator = 0
    /\ tick_count = 0
    /\ listener = [pos |-> Vec3(0, 0, 0), prev_pos |-> Vec3(0, 0, 0),
                   vel |-> Vec3(0, 0, 0)]
    /\ n_cmds = 0
    /\ n_updates = 0
    /\ last_op = "new"
    /\ last_cmds = << >>
    /\ last_update = << >>
    /\ last_staging = << >>
    /\ last_restore = << >>
    /\ map_log = NoMapCalls
    /\ one_at_a_time = Ecs(World_new, EntityMap_new, RenderState_new)

\* ------------------------------------------------------------------------
\* Specifications
\* ------------------------------------------------------------------------

RingInit ==
    /\ data = [o \in 0..(Cap - 1) |-> 0]
    /\ write_head = 0
    /\ read_head = 0
    /\ strict \in BOOLEAN
    /\ p_wh = 0
    /\ stream = << >>
    /\ n_writes = 0
    /\ n_pub = 0
    /\ unread = 0
    /\ produced = << >>
    /\ pub_cmds = 0
    /\ c_pc = "idle"
    /\ c_rh = 0
    /\ c_wh = 0
    /\ c_rh0 = 0
    /\ c_seen = 0
    /\ c_out = << >>
    /\ drained = << >>
    /\ n_drains = 0
    /\ header = [capacity |-> Cap, heartbeat_w1 |-> 0, heartbeat_w2 |-> 0,
                 supervisor_flags |-> 0, overflow_counter |-> 0]
    /\ c_writes = << >>

Init == RingInit /\ EngineInit

\* the engine alone, its ring idle
EngineOnlyInit == Init /\ strict

RingNext ==
    \/ ProducerWrite
    \/ ProducerWriteRaw
    \/ ProducerPublish
    \/ DrainBegin
    \/ DrainStep
    \/ DrainEnd

SpecRing == Init /\ [][RingNext]_vars

\* the ring with a consumer whose drain() is called again and again and, once
\* called, runs to its end
DrainFairness ==
    /\ WF_vars(DrainBegin)
    /\ WF_vars(DrainStep)
    /\ WF_vars(DrainEnd)

SpecRingFair == Init /\ [][RingNext]_vars /\ DrainFairness

\* the dispatcher, the render stage and the frame update over a few entities
Next ==
    \/ PushSlotCommand
    \/ FlushPendingDespawns
    \/ CollectDirtyStaging
    \/ CollectGpu
    \/ Update

Spec == EngineOnlyInit /\ [][Next]_vars

\* the dispatcher alone: batches, and single commands of every type
DispatchNext ==
    \/ PushBatch
    \/ PushCommand

SpecDispatch == EngineOnlyInit /\ [][DispatchNext]_vars

\* the scene hierarchy: spawns, despawns and SetParent over entities that
\* one batch spawned
HierNext == PushHierCommand

HierOnlyInit == RingInit /\ strict /\ HierInit

SpecHier == HierOnlyInit /\ [][HierNext]_vars

\* ------------------------------------------------------------------------
\* The clock: Engine::update under frame times of every kind
\* ------------------------------------------------------------------------

\* the frame times a host passes: whole numbers of steps up to and beyond
\* the clamp, half a step, the f32 just below a step, the f32 just above
\* five steps, a third of a step, and zero
FrameTimes ==
    { f32_round(FIXED_DT * k) : k \in 0..MaxSteps }
      \cup { FIXED_DT \div 2, FIXED_DT - 2, f32_round(FIXED_DT * 5) + 8, FIXED_DT \div 3 }

\* the frame times no frame has: NaN, the infinities, a negative time, 1 s
OddFrameTimes ==
    { F32_NAN, F32_INFINITY, F32_NEG_INFINITY, 0 - FIXED_DT, 1073741824 }

\* the velocities of the two entities of the clock's world, as payloads
ClockCmds ==
    << Cmd(SpawnEntity, 0, << >>),
       Cmd(SetVelocity, 0, << 1, 0, 0, 0,  0, 0, 0, 0,  0, 0, 0, 0 >>),
       Cmd(SpawnEntity, 1, << >>),
       Cmd(SetVelocity, 1, << 0, 0, 0, 0,  2, 0, 0, 0,  0, 0, 0, 0 >>) >>

\* Engine::new followed by one batch that spawns two moving entities
ClockInit ==
    LET st == process_commands(ClockCmds, Ecs(World_new, EntityMap_new, RenderState_new))
    IN  /\ world = st.world
        /\ entity_map = st.entity_map
        /\ render_state = st.render_state
        /\ accumulator = 0
        /\ tick_count = 0
        /\ listener = [pos |-> Vec3(0, 0, 0), prev_pos |-> Vec3(0, 0, 0),
                       vel |-> Vec3(0, 0, 0)]
        /\ n_cmds = 0
        /\ n_updates = 0
        /\ last_op = "process_commands"
        /\ last_cmds = ClockCmds
        /\ last_update = << >>
        /\ last_staging = << >>
        /\ last_restore = << >>
        /\ map_log = NoMapCalls
        /\ one_at_a_time = st

UpdateFrame ==
    \E dt \in FrameTimes :
        /\ n_updates < MaxUpdates
        /\ Engine_update(dt)
        /\ last_op' = "update"

UpdateOddFrame ==
    \E dt \in OddFrameTimes :
        /\ n_updates < MaxUpdates
        /\ Engine_update(dt)
        /\ last_op' = "update"

ClockNext == UpdateFrame \/ UpdateOddFrame

ClockOnlyInit == RingInit /\ strict /\ ClockInit

SpecClock == ClockOnlyInit /\ [][ClockNext]_vars

\* ------------------------------------------------------------------------
\* The hierarchy under Engine::update: three entities, every Parent relation
\* a host can command among them, and frames of one FIXED_DT
\* ------------------------------------------------------------------------

\* the three entities of the tree's world
TreeIds == 0..2

\* SetParent commands in one behaviour of the tree
MaxTreeCmds == 3

\* SetParent of any entity onto any entity, itself included, or onto none
TreeCmds ==
    { Cmd(SetParent, i, u32_to_le_bytes(p)) : i \in TreeIds, p \in TreeIds \cup { U32_MAX } }

\* three entities at x = 1, y = 10 and z = 100, the first scaled by 2
TreeSetup ==
    << Cmd(SpawnEntity, 0, << >>),
       Cmd(SpawnEntity, 1, << >>),
       Cmd(SpawnEntity, 2, << >>),
       Cmd(SetPosition, 0, << 1, 0, 0, 0,  0, 0, 0, 0,  0, 0, 0, 0 >>),
       Cmd(SetScale, 0, << 2, 0, 0, 0,  2, 0, 0, 0,  2, 0, 0, 0 >>),
       Cmd(SetPosition, 1, << 0, 0, 0, 0,  10, 0, 0, 0,  0, 0, 0, 0 >>),
       Cmd(SetPosition, 2, << 0, 0, 0, 0,  0, 0, 0, 0,  100, 0, 0, 0 >>) >>

\* Engine::new followed by the batch that sets the three entities up
TreeInit ==
    LET st == process_commands(TreeSetup, Ecs(World_new, EntityMap_new, RenderState_new))
    IN  /\ world = st.world
        /\ entity_map = st.entity_map
        /\ render_state = st.render_state
        /\ accumulator = 0
        /\ tick_count = 0
        /\ listener = [pos |-> Vec3(0, 0, 0), prev_pos |-> Vec3(0, 0, 0),
                       vel |-> Vec3(0, 0, 0)]
        /\ n_cmds = 0
        /\ n_updates = 0
        /\ last_op = "process_commands"
        /\ last_cmds = TreeSetup
        /\ last_update = << >>
        /\ last_staging = << >>
        /\ last_restore = << >>
        /\ map_log = NoMapCalls
        /\ one_at_a_time = st

PushTreeCommand ==
    \E c \in TreeCmds :
        /\ n_cmds < MaxTreeCmds
        /\ Engine_process_commands(<< c >>)
        /\ last_op' = "process_commands"

UpdateTree ==
    /\ n_updates < MaxUpdates
    /\ Engine_update(FIXED_DT)
    /\ last_op' = "update"

TreeNext == PushTreeCommand \/ UpdateTree

TreeOnlyInit == RingInit /\ strict /\ TreeInit

SpecTree == TreeOnlyInit /\ [][TreeNext]_vars

\* ------------------------------------------------------------------------
\* The wire format: a host encodes commands one after the other into a flat
\* buffer and parse_commands decodes the buffer
\* ------------------------------------------------------------------------

\* commands in one buffer
MaxCodecCmds == 2

\* payload bytes a host writes: zeros, or bytes that include type bytes, an
\* unknown type byte and 255
CodecPayloads ==
    { Zeros(16), << 1, 14, 255, 0, 13, 7, 0, 9, 2, 255, 14, 3, 0, 0, 5, 128 >> }

\* the valid commands: every type, ids at both ends of u32 and in between,
\* the payload cut to the type's size and padded with zeros
CodecCmds ==
    { Cmd(t, id, SubSeq(p, 1, payload_size(t))) :
        t \in 0..13, id \in { 0, 258, U32_MAX }, p \in CodecPayloads }

\* the host appends the encoding of one more command and the buffer is parsed
CodecAppend ==
    \E c \in CodecCmds :
        /\ Len(produced) < MaxCodecCmds
        /\ produced' = Append(produced, c)
        /\ stream' = stream \o Encode(c)
        /\ drained' = parse_commands(stream \o Encode(c))
        /\ UNCHANGED engineVars
        /\ UNCHANGED << header, c_writes >>
        /\ UNCHANGED << data, write_head, read_head, strict, p_wh, n_writes, n_pub, unread,
                        pub_cmds, c_pc, c_rh, c_wh, c_rh0, c_seen, c_out, n_drains >>

CodecNext == CodecAppend

SpecCodec == EngineOnlyInit /\ [][CodecNext]_vars

\* ------------------------------------------------------------------------
\* The dirty marks of the setters: two slotted entities whose bits the stage
\* has cleared, then single commands of every type
\* ------------------------------------------------------------------------

\* commands after the setup in one behaviour
MaxMarkCmds == 2

\* Engine::new, one batch that spawns ids 0 and 1, and a collect_dirty_staging
\* that clears the bits the spawns set
MarksInit ==
    LET spawns == << Cmd(SpawnEntity, 0, << >>), Cmd(SpawnEntity, 1, << >>) >>
        st == process_commands(spawns, Ecs(World_new, EntityMap_new, RenderState_new))
        staged == collect_dirty_staging(st.render_state, st.world)
    IN  /\ world = st.world
        /\ entity_map = st.entity_map
        /\ render_state = staged[1]
        /\ accumulator = 0
        /\ tick_count = 0
        /\ listener = [pos |-> Vec3(0, 0, 0), prev_pos |-> Vec3(0, 0, 0),
                       vel |-> Vec3(0, 0, 0)]
        /\ n_cmds = 0
        /\ n_updates = 0
        /\ last_op = "collect_dirty_staging"
        /\ last_cmds = << >>
        /\ last_update = << >>
        /\ last_staging = << staged[2] >>
        /\ last_restore = << >>
        /\ map_log = NoMapCalls
        /\ one_at_a_time = st

PushMarkCommand ==
    \E c \in AllCmds :
        /\ n_cmds < MaxMarkCmds
        /\ Engine_process_commands(<< c >>)
        /\ last_op' = "process_commands"

MarksNext == PushMarkCommand \/ CollectDirtyStaging

MarksOnlyInit == RingInit /\ strict /\ MarksInit

SpecMarks == MarksOnlyInit /\ [][MarksNext]_vars

\* ------------------------------------------------------------------------
\* Moving entities and the frame-end collection: two entities with a
\* Velocity, spawns, despawns and SetPosition, frames of one FIXED_DT, and
\* the calls of the dirty-staging path
\* ------------------------------------------------------------------------

\* commands after the setup in one behaviour
MaxMoveCmds == 2

\* Engine::new followed by the batch that spawns two moving entities
MoveInit == ClockInit

PushMoveCommand ==
    \E c \in SlotCmds :
        /\ n_cmds < MaxMoveCmds
        /\ Engine_process_commands(<< c >>)
        /\ last_op' = "process_commands"

UpdateMove ==
    /\ n_updates < MaxUpdates
    /\ Engine_update(FIXED_DT)
    /\ last_op' = "update"

\* collect_dirty_staging called by the host after the frame's update; the
\* record of the update is kept
StageAfterUpdate ==
    /\ ~render_state.panicked
    /\ last_op = "update"
    /\ render_state' = collect_dirty_staging(render_state, world)[1]
    /\ last_staging' = << collect_dirty_staging(render_state, world)[2] >>
    /\ UNCHANGED last_restore
    /\ UNCHANGED map_log
    /\ last_op' = "collect_dirty_staging"
    /\ UNCHANGED << world, entity_map, accumulator, tick_count, listener, n_cmds,
                    n_updates, last_cmds, last_update, one_at_a_time >>
    /\ UNCHANGED ringVars

\* collect_and_cache_dirty called by the host after the frame's update
CacheAfterUpdate ==
    /\ ~render_state.panicked
    /\ last_op = "update"
    /\ render_state' = collect_and_cache_dirty(render_state, world)
    /\ last_staging' = << >>
    /\ UNCHANGED last_restore
    /\ UNCHANGED map_log
    /\ last_op' = "collect_and_cache_dirty"
    /\ UNCHANGED << world, entity_map, accumulator, tick_count, listener, n_cmds,
                    n_updates, last_cmds, last_update, one_at_a_time >>
    /\ UNCHANGED ringVars

MoveNext == PushMoveCommand \/ UpdateMove \/ StageAfterUpdate \/ CacheAfterUpdate

MoveOnlyInit == RingInit /\ strict /\ MoveInit

SpecMove == MoveOnlyInit /\ [][MoveNext]_vars

\* ------------------------------------------------------------------------
\* The hierarchy commands, single and repeated: as SpecHier, and in addition
\* batches that hold the same SetParent twice
\* ------------------------------------------------------------------------

PushSetParentTwice ==
    \E c \in { h \in HierCmds : h.cmd_type = SetParent } :
        /\ Engine_process_commands(<< c, c >>)
        /\ last_op' = "process_commands"

TwiceNext == PushHierCommand \/ PushSetParentTwice

SpecTwice == HierOnlyInit /\ [][TwiceNext]_vars

\* ------------------------------------------------------------------------
\* The hierarchy commands with a parent id that was never spawned: as
\* SpecHier, and in addition SetParent onto GhostId
\* ------------------------------------------------------------------------

\* an external id above every spawned one
GhostId == MAX_CHILDREN + 2

PushSetParentGhost ==
    \E i \in HierIds :
        /\ Engine_process_commands(<< Cmd(SetParent, i, u32_to_le_bytes(GhostId)) >>)
        /\ last_op' = "process_commands"

OrphanNext == PushHierCommand \/ PushSetParentGhost

SpecOrphan == HierOnlyInit /\ [][OrphanNext]_vars

\* ------------------------------------------------------------------------
\* Recycling of external ids: spawns and despawns through the dispatcher on
\* an entity map whose owner also calls allocate
\* ------------------------------------------------------------------------

RecycleCmds ==
    { Cmd(t, i, << >>) : t \in { SpawnEntity, DespawnEntity }, i \in 0..1 }

PushRecycleCommand ==
    \E c \in RecycleCmds :
        /\ Engine_process_commands(<< c >>)
        /\ last_op' = "process_commands"

\* EntityMap::allocate, called by the owner of the map
AllocateId ==
    /\ ~render_state.panicked
    /\ n_cmds < MaxCmds
    /\ entity_map' = EntityMap_allocate(entity_map)[1]
    /\ n_cmds' = n_cmds + 1
    /\ last_op' = "allocate"
    /\ last_cmds' = << >>
    /\ one_at_a_time' = Ecs(world, entity_map', render_state)
    /\ last_update' = << >>
    /\ last_staging' = << >>
    /\ UNCHANGED last_restore
    /\ map_log' = Called(map_log, "allocate", EntityMap_allocate(entity_map)[2])
    /\ UNCHANGED << world, render_state, accumulator, tick_count, listener, n_updates >>
    /\ UNCHANGED ringVars

RecycleNext == PushRecycleCommand \/ AllocateId

SpecRecycle == EngineOnlyInit /\ [][RecycleNext]_vars

\* ------------------------------------------------------------------------
\* The entity map alone: every sequence of allocate, insert, remove and
\* shrink_to_fit
\* ------------------------------------------------------------------------

\* calls per run
MaxMapOps == 6

\* the external ids the calls name
MapIds == 0..2

\* the handles insert stores
MapHandles == { Entity(0, 1), Entity(1, 1) }

\* one call on the map: the map afterwards and what is recorded of it
MapCall(op, em2, id) ==
    /\ ~render_state.panicked
    /\ map_log.n < MaxMapOps
    /\ entity_map' = em2
    /\ map_log' = Called(map_log, op, id)
    /\ last_cmds' = << >>
    /\ one_at_a_time' = Ecs(world, em2, render_state)
    /\ last_update' = << >>
    /\ last_staging' = << >>
    /\ UNCHANGED last_restore
    /\ UNCHANGED << world, render_state, accumulator, tick_count, listener,
                    n_cmds, n_updates >>
    /\ UNCHANGED ringVars

MapAllocate ==
    /\ MapCall("allocate", EntityMap_allocate(entity_map)[1],
               EntityMap_allocate(entity_map)[2])
    /\ last_op' = "allocate"

MapInsert ==
    \E id \in MapIds : \E e \in MapHandles :
        /\ MapCall("insert", EntityMap_insert(entity_map, id, e), id)
        /\ last_op' = "insert"

MapRemove ==
    \E id \in MapIds :
        /\ MapCall("remove", EntityMap_remove(entity_map, id), id)
        /\ last_op' = "remove"

MapShrink ==
    /\ MapCall("shrink_to_fit", EntityMap_shrink_to_fit(entity_map), 0)
    /\ last_op' = "shrink_to_fit"

MapNext == MapAllocate \/ MapInsert \/ MapRemove \/ MapShrink

SpecMap == EngineOnlyInit /\ [][MapNext]_vars

\* ------------------------------------------------------------------------
\* The listener: SetListenerPosition commands and frame updates over two
\* moving entities
\* ------------------------------------------------------------------------

\* the bits of -1.0, 0.25 and 1.0
ListenerValues == { f32_pack(1, 8388608, 0 - 23), f32_pack(0, 8388608, 0 - 25),
                    f32_pack(0, 8388608, 0 - 23) }

\* the positions the commands name: every value in every component, and
\* every change of a component between two of them
ListenerPoints ==
    { << f32_pack(1, 8388608, 0 - 23), f32_pack(0, 8388608, 0 - 25),
         f32_pack(0, 8388608, 0 - 23) >>,
      << f32_pack(0, 8388608, 0 - 25), f32_pack(0, 8388608, 0 - 23),
         f32_pack(1, 8388608, 0 - 23) >>,
      << f32_pack(0, 8388608, 0 - 23), f32_pack(1, 8388608, 0 - 23),
         f32_pack(0, 8388608, 0 - 25) >> }

ListenerCmd(pt) ==
    Cmd(SetListenerPosition, 0,
        u32_to_le_bytes(pt[1]) \o u32_to_le_bytes(pt[2]) \o u32_to_le_bytes(pt[3]))

\* most fixed ticks' worth of time given to one update of the listener
MaxListenTicks == 3

PushListenerCommand ==
    \E pt \in ListenerPoints :
        /\ Engine_process_commands(<< ListenerCmd(pt) >>)
        /\ last_op' = "process_commands"

PushListenerBatch ==
    \E pt1 \in ListenerPoints : \E pt2 \in ListenerPoints :
        /\ Engine_process_commands(<< ListenerCmd(pt1), ListenerCmd(pt2) >>)
        /\ last_op' = "process_commands"

UpdateListener ==
    \E k \in 1..MaxListenTicks :
        /\ n_updates < MaxUpdates
        /\ Engine_update(k * FIXED_DT)
        /\ last_op' = "update"

ListenNext == PushListenerCommand \/ PushListenerBatch \/ UpdateListener

ListenOnlyInit == RingInit /\ strict /\ ClockInit

SpecListen == ListenOnlyInit /\ [][ListenNext]_vars

\* ------------------------------------------------------------------------
\* Who writes which component: single commands of every type and frame
\* updates over two moving entities
\* ------------------------------------------------------------------------

\* commands per run
MaxFrameCmds == 2

\* one command of every type for both ids, and SetParent onto the other
\* parent and onto none
FrameCmds ==
    AllCmds \cup { Cmd(SetParent, i, u32_to_le_bytes(p)) : i \in 0..1, p \in { 0, U32_MAX } }

PushFrameCommand ==
    \E c \in FrameCmds :
        /\ n_cmds < MaxFrameCmds
        /\ Engine_process_commands(<< c >>)
        /\ last_op' = "process_commands"

UpdateFrameTick ==
    /\ n_updates < MaxUpdates
    /\ Engine_update(FIXED_DT)
    /\ last_op' = "update"

FrameNext == PushFrameCommand \/ UpdateFrameTick

SpecFrame == ListenOnlyInit /\ [][FrameNext]_vars

\* ------------------------------------------------------------------------
\* Snapshot restore (engine.rs)
\* ------------------------------------------------------------------------

\* b"HSNP"
SNAPSHOT_MAGIC == << 72, 83, 78, 80 >>

\* u16::from_le_bytes on b[off+1..off+2]
u16_from_le_bytes(b, off) == b[off + 1] + 256 * b[off + 2]

\* a u64 read from b[off+1..off+8], held as << low word, high word >>
u64_from_le_bytes(b, off) ==
    << u32_from_le_bytes(b, off), u32_from_le_bytes(b, off + 4) >>

\* mask & (1 << bit) != 0
MaskBit(mask, bit) == (mask \div Pow2(bit)) % 2 = 1

\* the component behind each of the mask bits 0..12 that is read with
\* read_pod!, and mem::size_of of its type; bit 10 (Active) carries no input
ComponentOfBit ==
    << "Position", "Velocity", "Rotation", "Scale", "ModelMatrix",
       "BoundingRadius", "TextureLayerIndex", "MeshHandle", "RenderPrimitive",
       "Parent", "Active", "ExternalId", "PrimitiveParams" >>

ComponentSize == << 12, 12, 16, 12, 64, 4, 4, 4, 1, 4, 0, 4, 32 >>

\* bytemuck::pod_read_unaligned of the component of the given bit at cursor
read_component(input, cursor, bit) ==
    IF ComponentSize[bit + 1] = 1 THEN input[cursor + 1]
    ELSE IF ComponentSize[bit + 1] = 4 THEN u32_from_le_bytes(input, cursor)
    ELSE [i \in 1..(ComponentSize[bit + 1] \div 4) |->
            f32_from_le_bytes(input, cursor + 4 * (i - 1))]

\* the components of bits bit..12 of one entity record, read in bit order
\* into the bundle: [ret, cursor, bundle]; ret is "false" where read_pod!
\* returns false
RECURSIVE read_components(_, _, _, _, _)
read_components(input, cursor, mask, bit, bundle) ==
    IF bit > 12 THEN [ret |-> "ok", cursor |-> cursor, bundle |-> bundle]
    ELSE IF bit = 10
    THEN read_components(input, cursor, mask, bit + 1,
                         [bundle EXCEPT !.Active = MaskBit(mask, 10)])
    ELSE IF ~MaskBit(mask, bit)
    THEN read_components(input, cursor, mask, bit + 1, bundle)
    ELSE IF cursor + ComponentSize[bit + 1] > Len(input)
    THEN [ret |-> "false", cursor |-> cursor, bundle |-> bundle]
    ELSE read_components(input, cursor + ComponentSize[bit + 1], mask, bit + 1,
                         [bundle EXCEPT ![ComponentOfBit[bit + 1]] =
                              read_component(input, cursor, bit)])

\* bit 13: the 64 bytes of a LocalMatrix (a component the world of this
\* model does not hold): [ret, cursor]
read_local_matrix(input, cursor, mask) ==
    IF ~MaskBit(mask, 13) THEN [ret |-> "ok", cursor |-> cursor]
    ELSE IF cursor + 64 > Len(input) THEN [ret |-> "false", cursor |-> cursor]
    ELSE [ret |-> "ok", cursor |-> cursor + 64]

\* bit 14: a count byte and count ids; slots[i] with i >= MAX_CHILDREN is
\* an index out of bounds, a panic: [ret, cursor, children]
read_children(input, cursor, mask) ==
    IF ~MaskBit(mask, 14)
    THEN [ret |-> "ok", cursor |-> cursor, children |-> Children_default]
    ELSE IF cursor >= Len(input)
    THEN [ret |-> "false", cursor |-> cursor, children |-> Children_default]
    ELSE LET count == input[cursor + 1]
             needed == count * 4
         IN  IF cursor + 1 + needed > Len(input)
             THEN [ret |-> "false", cursor |-> cursor + 1,
                   children |-> Children_default]
             ELSE IF count > MAX_CHILDREN
             THEN [ret |-> "panic", cursor |-> cursor + 1,
                   children |-> Children_default]
             ELSE [ret |-> "ok", cursor |-> cursor + 1 + needed,
                   children |->
                       [slots |-> [i \in 1..MAX_CHILDREN |->
                                     IF i <= count
                                     THEN u32_from_le_bytes(input, cursor + 1 + 4 * (i - 1))
                                     ELSE 0],
                        count |-> count]]

\* the bundle an entity record starts from: every component at its default,
\* ExternalId(0), no Active
RestoreBundle == [SpawnBundle(0) EXCEPT !.Active = FALSE]

\* one pass of the loop over the entities: [ret, cursor, bits, bundle]
read_entity(input, cursor) ==
    IF cursor + 8 > Len(input) \/ cursor + 10 > Len(input)
    THEN [ret |-> "false", cursor |-> cursor, bits |-> << 0, 0 >>,
          bundle |-> RestoreBundle]
    ELSE LET old_hecs_bits == u64_from_le_bytes(input, cursor)
             mask == u16_from_le_bytes(input, cursor + 8)
             pods == read_components(input, cursor + 10, mask, 0, RestoreBundle)
             lm == read_local_matrix(input, pods.cursor, mask)
             ch == read_children(input, lm.cursor, mask)
             ret == IF pods.ret # "ok" THEN pods.ret
                    ELSE IF lm.ret # "ok" THEN lm.ret
                    ELSE ch.ret
         IN  [ret |-> ret, cursor |-> ch.cursor, bits |-> old_hecs_bits,
              bundle |-> [pods.bundle EXCEPT !.Children = ch.children]]

\* HashMap::insert
HashMap_insert(hm, k, v) ==
    [x \in DOMAIN hm \cup {k} |-> IF x = k THEN v ELSE hm[x]]

\* for _ in 0..entity_count: [ret, cursor, world, old_to_new]; a count the
\* input cannot hold ends at the first record that is cut short
RECURSIVE read_entities(_, _, _, _, _)
read_entities(input, cursor, entity_count, w, old_to_new) ==
    IF entity_count = 0
    THEN [ret |-> "ok", cursor |-> cursor, world |-> w, old_to_new |-> old_to_new]
    ELSE LET r == read_entity(input, cursor)
         IN  IF r.ret # "ok"
             THEN [ret |-> r.ret, cursor |-> r.cursor, world |-> w,
                   old_to_new |-> old_to_new]
             ELSE read_entities(input, r.cursor, entity_count - 1,
                                World_spawn(w, r.bundle),
                                HashMap_insert(old_to_new, r.bits,
                                               World_next_entity(w)))

\* for _ in 0..map_len: [ret, cursor, pairs]
RECURSIVE read_map_entries(_, _, _, _)
read_map_entries(input, cursor, map_len, pairs) ==
    IF map_len = 0 THEN [ret |-> "ok", cursor |-> cursor, pairs |-> pairs]
    ELSE IF cursor + 4 > Len(input) \/ cursor + 12 > Len(input)
    THEN [ret |-> "false", cursor |-> cursor, pairs |-> pairs]
    ELSE read_map_entries(input, cursor + 12, map_len - 1,
                          Append(pairs, << u32_from_le_bytes(input, cursor),
                                           u64_from_le_bytes(input, cursor + 4) >>))

\* the loop that rebuilds the entity map
RECURSIVE rebuild_entity_map(_, _, _)
rebuild_entity_map(pairs, old_to_new, em) ==
    IF pairs = << >> THEN em
    ELSE rebuild_entity_map(Tail(pairs), old_to_new,
             IF pairs[1][2] \in DOMAIN old_to_new
             THEN EntityMap_insert(em, pairs[1][1], old_to_new[pairs[1][2]])
             ELSE em)

\* the pointer widths of the targets the crate is built for: wasm32 for the
\* browser, a 64-bit host for its tests
PointerWidths == { 32, 64 }

\* Vec::<(u32, u64)>::with_capacity(n as usize) panics with "capacity
\* overflow" when n elements of 16 bytes exceed isize::MAX bytes: with
\* 32-bit pointers from n = 2^27 on, with 64-bit pointers for no u32
with_capacity_panics(n, width) ==
    width = 32 /\ (n < 0 \/ n >= 134217728)

\* Engine::snapshot_restore(input) on the target of the given pointer width:
\* [ret, eng] with ret "true", "false" or "panic"
snapshot_restore(eng, input, width) ==
    IF Len(input) < 24 THEN [ret |-> "false", eng |-> eng]
    ELSE IF SubSeq(input, 1, 4) # SNAPSHOT_MAGIC THEN [ret |-> "false", eng |-> eng]
    ELSE IF u32_from_le_bytes(input, 4) # 1 THEN [ret |-> "false", eng |-> eng]
    ELSE LET tick == u64_from_le_bytes(input, 8)
             entity_count == u32_from_le_bytes(input, 16)
             map_len == u32_from_le_bytes(input, 20)
         IN  IF with_capacity_panics(map_len, width)
             THEN [ret |-> "panic", eng |-> eng]
             ELSE LET mp == read_map_entries(input, 24, map_len, << >>)
                  IN  IF mp.ret # "ok" THEN [ret |-> mp.ret, eng |-> eng]
                      ELSE LET es == read_entities(input, mp.cursor, entity_count,
                                                   World_new, << >>)
                           IN  IF es.ret # "ok" THEN [ret |-> es.ret, eng |-> eng]
                               ELSE [ret |-> "true",
                                     eng |->
                                       [world |-> es.world,
                                        entity_map |->
                                            rebuild_entity_map(mp.pairs, es.old_to_new,
                                                               EntityMap_new),
                                        render_state |-> RenderState_new,
                                        accumulator |-> 0,
                                        tick_count |-> tick[1],
                                        listener |-> [pos |-> Vec3(0, 0, 0),
                                                      prev_pos |-> Vec3(0, 0, 0),
                                                      vel |-> Vec3(0, 0, 0)]]]

\* ------------------------------------------------------------------------
\* Restoring into an engine that has run: the inputs are snapshots of the
\* documented layout, every prefix of each, the same with another magic or
\* version, and headers that declare more map entries than any input holds
\* ------------------------------------------------------------------------

\* u16::to_le_bytes
u16_to_le_bytes(v) == << v % 256, v \div 256 >>

\* Entity::to_bits().get().to_le_bytes(): the index is the low word
Entity_to_le_bytes(e) == u32_to_le_bytes(e.id) \o u32_to_le_bytes(e.generation)

SnapshotHeader(magic, version, tick, entity_count, map_len) ==
    magic \o u32_to_le_bytes(version) \o u32_to_le_bytes(tick) \o u32_to_le_bytes(0)
      \o u32_to_le_bytes(entity_count) \o u32_to_le_bytes(map_len)

\* the ids 1 .. n as a Children list on the wire
RECURSIVE ChildBytes(_)
ChildBytes(n) == IF n = 0 THEN << >> ELSE ChildBytes(n - 1) \o u32_to_le_bytes(n)

\* Position | RenderPrimitive | Parent | Active | ExternalId | Children
ParentMask == 1 + 256 + 512 + 1024 + 2048 + 16384

\* LocalMatrix alone
LocalMatrixMask == Pow2(13)

\* the tick the snapshots carry
SnapshotTick == 5

\* no entity and no map entry
EmptySnapshot(magic, version) == SnapshotHeader(magic, version, SnapshotTick, 0, 0)

\* one mapped entity with n children
ParentSnapshot(magic, version, n) ==
    SnapshotHeader(magic, version, SnapshotTick, 1, 1)
      \o u32_to_le_bytes(0) \o Entity_to_le_bytes(Entity(0, 1))
      \o Entity_to_le_bytes(Entity(0, 1)) \o u16_to_le_bytes(ParentMask)
      \o u32_to_le_bytes(7) \o u32_to_le_bytes(8) \o u32_to_le_bytes(9)
      \o << 2 >> \o u32_to_le_bytes(U32_MAX) \o u32_to_le_bytes(0)
      \o << n >> \o ChildBytes(n)

\* one unmapped entity that has a LocalMatrix
LocalMatrixSnapshot(magic, version) ==
    SnapshotHeader(magic, version, SnapshotTick, 1, 0)
      \o Entity_to_le_bytes(Entity(3, 2)) \o u16_to_le_bytes(LocalMatrixMask)
      \o [i \in 1..64 |-> i]

SnapshotsOf(magic, version) ==
    { EmptySnapshot(magic, version), LocalMatrixSnapshot(magic, version) }
      \cup { ParentSnapshot(magic, version, n) : n \in 0..MAX_CHILDREN + 1 }

\* map lengths no input is long enough for
LongMapLens == { 3, 134217728, U32_MAX }

SnapshotInputs ==
    UNION { { SubSeq(s, 1, n) : n \in 0..Len(s) } : s \in SnapshotsOf(SNAPSHOT_MAGIC, 1) }
      \cup SnapshotsOf(<< 66, 65, 68, 68 >>, 1)
      \cup SnapshotsOf(SNAPSHOT_MAGIC, 0)
      \cup SnapshotsOf(SNAPSHOT_MAGIC, 2)
      \cup { SnapshotHeader(SNAPSHOT_MAGIC, 1, SnapshotTick, 0, m) : m \in LongMapLens }

\* most commands before or after a restore
MaxSnapCmds == 1

SnapshotCmds == { ListenerCmd(pt) : pt \in ListenerPoints }
                  \cup { Cmd(SpawnEntity, 2, << >>) }

PushSnapshotCommand ==
    \E c \in SnapshotCmds :
        /\ n_cmds < MaxSnapCmds
        /\ Engine_process_commands(<< c >>)
        /\ last_op' = "process_commands"

\* one call of snapshot_restore(input) on the target of the given width
Engine_snapshot_restore(input, width) ==
    LET r == snapshot_restore(EngineNow, input, width)
    IN  /\ ~render_state.panicked
        /\ last_restore = << >>
        /\ world' = r.eng.world
        /\ entity_map' = r.eng.entity_map
        /\ render_state' = IF r.ret = "panic" THEN Panic(r.eng.render_state)
                           ELSE r.eng.render_state
        /\ accumulator' = r.eng.accumulator
        /\ tick_count' = r.eng.tick_count
        /\ listener' = r.eng.listener
        /\ last_restore' = << [data |-> input, width |-> width, ret |-> r.ret] >>
        /\ last_cmds' = << >>
        /\ one_at_a_time' = Ecs(r.eng.world, r.eng.entity_map, render_state')
        /\ last_update' = << >>
        /\ last_staging' = << >>
        /\ UNCHANGED << map_log, n_cmds, n_updates >>
        /\ UNCHANGED ringVars

\* one call of snapshot_restore, on either target; a panic ends the engine
Restore ==
    \E input \in SnapshotInputs : \E width \in PointerWidths :
        /\ Engine_snapshot_restore(input, width)
        /\ last_op' = "snapshot_restore"

RestoreNext == PushSnapshotCommand \/ UpdateFrameTick \/ Restore

SpecRestore == ListenOnlyInit /\ [][RestoreNext]_vars

\* ------------------------------------------------------------------------
\* Snapshot create (engine.rs) and the round trip
\* ------------------------------------------------------------------------

\* bytemuck::bytes_of of the component of the given bit
write_component(bit, value) ==
    IF ComponentSize[bit + 1] = 1 THEN << value >>
    ELSE IF ComponentSize[bit + 1] = 4 THEN u32_to_le_bytes(value)
    ELSE LET RECURSIVE floats(_)
             floats(n) == IF n = 0 THEN << >>
                          ELSE floats(n - 1) \o u32_to_le_bytes(value[n])
         IN  floats(ComponentSize[bit + 1] \div 4)

\* the mask bits and the bytes of the components of bits bit..12 that the
\* entity has, in bit order: [mask, bytes]; every entity of the world has
\* the thirteen spawn components, Active is a marker without bytes
RECURSIVE write_components(_, _)
write_components(comps, bit) ==
    IF bit > 12 THEN [mask |-> 0, bytes |-> << >>]
    ELSE LET rest == write_components(comps, bit + 1)
         IN  IF bit = 10
             THEN [mask |-> rest.mask + (IF comps.Active THEN Pow2(10) ELSE 0),
                   bytes |-> rest.bytes]
             ELSE [mask |-> rest.mask + Pow2(bit),
                   bytes |-> write_component(bit, comps[ComponentOfBit[bit + 1]])
                               \o rest.bytes]

\* bit 14: the count byte and the first count slots
write_children(ch) ==
    LET RECURSIVE slots(_)
        slots(n) == IF n = 0 THEN << >>
                    ELSE slots(n - 1) \o u32_to_le_bytes(ch.slots[n])
    IN  << ch.count >> \o slots(ch.count)

\* one entity record: the handle, the patched mask, the components; no
\* entity of the engine has a LocalMatrix, and OverflowChildren has no bit
write_entity(w, e) ==
    LET pods == write_components(w.comps[e], 0)
    IN  Entity_to_le_bytes(e) \o u16_to_le_bytes(pods.mask + Pow2(14))
          \o pods.bytes \o write_children(w.comps[e].Children)

\* the records of the first n entities in the order of world.iter()
RECURSIVE write_entities(_, _)
write_entities(w, n) ==
    IF n = 0 THEN << >>
    ELSE write_entities(w, n - 1) \o write_entity(w, World_query(w)[n])

\* the (ext_id, handle) entries of iter_mapped() among the first n cells
RECURSIVE write_map_entries(_, _)
write_map_entries(em, n) ==
    IF n = 0 THEN << >>
    ELSE write_map_entries(em, n - 1)
           \o (IF IsSome(em.map[n])
               THEN u32_to_le_bytes(n - 1) \o Entity_to_le_bytes(Unwrap(em.map[n]))
               ELSE << >>)

\* Engine::snapshot_create
snapshot_create(eng) ==
    SnapshotHeader(SNAPSHOT_MAGIC, 1, eng.tick_count,
                   Len(World_query(eng.world)),
                   Cardinality(EntityMap_iter_mapped(eng.entity_map)))
      \o write_map_entries(eng.entity_map, Len(eng.entity_map.map))
      \o write_entities(eng.world, Len(World_query(eng.world)))

\* most commands in one behaviour of the round trip
MaxTripCmds == 3

\* a parent filled past its Children, a move and a despawn
TripCmds ==
    { Cmd(SetParent, i, u32_to_le_bytes(0)) : i \in 1..(MAX_CHILDREN + 1) }
      \cup { Cmd(SetPosition, 1, << 3, 0, 0, 0,  0, 0, 0, 0,  5, 0, 0, 0 >>),
             Cmd(DespawnEntity, 2, << >>) }

PushTripCommand ==
    \E c \in TripCmds :
        /\ n_cmds < MaxTripCmds
        /\ Engine_process_commands(<< c >>)
        /\ last_op' = "process_commands"

\* snapshot_restore(&snapshot_create()) on the engine as it is
RoundTrip ==
    \E width \in PointerWidths :
        /\ Engine_snapshot_restore(snapshot_create(EngineNow), width)
        /\ last_op' = "snapshot_roundtrip"

TripNext == PushTripCommand \/ UpdateFrameTick \/ RoundTrip

SpecTrip == HierOnlyInit /\ [][TripNext]_vars

\* ------------------------------------------------------------------------
\* Ring buffer: claims
\* ------------------------------------------------------------------------

\* what the consumer has returned or is about to return
Returned == IF c_pc = "idle" THEN drained ELSE drained \o c_out

\* C1: with a producer that writes only complete valid commands and publishes
\* them after writing, under every interleaving the commands the drains
\* return, in order, are a prefix of the commands published so far (none
\* lost, duplicated, reordered or read before its publication), and a
\* finished drain that saw write_head differ from read_head has returned
\* every command published before it loaded write_head.
C1_DrainsArePrefixOfProduced ==
    strict =>
        /\ IsPrefix(Returned, SubSeq(produced, 1, pub_cmds))
        /\ (c_pc = "idle" /\ n_drains >= 1 /\ c_rh0 # c_wh) => Len(drained) >= c_seen

\* C1 witness: a strict producer's commands were all drained, over at least
\* two drains, the last of which wrapped around the end of the data region.
C1_Witness ==
    /\ strict
    /\ c_pc = "idle"
    /\ n_drains >= 2
    /\ Len(drained) = MaxWrites
    /\ Len(c_out) >= 1
    /\ read_head < c_rh0

\* ring offset after the first k commands of the current drain's result
RECURSIVE OffsetAfter(_)
OffsetAfter(k) ==
    IF k = 0 THEN c_rh0
    ELSE (OffsetAfter(k - 1) + 5 + payload_size(c_out[k].cmd_type)) % Cap

\* bytes between ring offset o and the write_head the drain observed
Published(o) == (c_wh - o + Cap) % Cap

\* the command that the bytes at ring offset o spell
DecodeAt(o) ==
    LET t == data[o % Cap]
        n == payload_size(t)
    IN  Command(t,
                u32_from_le_bytes([i \in 1..4 |-> data[(o + i) % Cap]], 0),
                [i \in 1..16 |-> IF i <= n THEN data[(o + 4 + i) % Cap] ELSE 0])

\* a complete command of a known type starts at ring offset o
CompleteAt(o) ==
    /\ data[o % Cap] \in 0..13
    /\ 5 + payload_size(data[o % Cap]) <= Published(o)

\* C2: a drain returns exactly the commands that lie, complete and of a known
\* type, one after the other from read_head; it stops at the first offset
\* that is the observed write_head, carries an unknown type byte or starts a
\* command longer than the published bytes, and publishes that offset as
\* read_head.
C2_DrainStopsAtBoundary ==
    /\ c_pc = "publish" =>
          /\ \A k \in 1..Len(c_out) :
                /\ OffsetAfter(k - 1) # c_wh
                /\ CompleteAt(OffsetAfter(k - 1))
                /\ c_out[k] = DecodeAt(OffsetAfter(k - 1))
          /\ c_rh = OffsetAfter(Len(c_out))
          /\ c_rh = c_wh \/ ~CompleteAt(c_rh)
    /\ (c_pc = "idle" /\ n_drains >= 1) => read_head = c_rh

\* C2 witness: a drain that decoded a command and then stopped short of
\* write_head at a truncated command.
C2_Witness ==
    /\ c_pc = "publish"
    /\ Len(c_out) >= 1
    /\ c_rh # c_wh
    /\ data[c_rh] \in 0..13
    /\ Published(c_rh) < 5 + payload_size(data[c_rh])

\* a drain that decoded a command and then stopped at an unknown type byte
C2_WitnessUnknownType ==
    /\ c_pc = "publish"
    /\ Len(c_out) >= 1
    /\ c_rh # c_wh
    /\ data[c_rh] = BadTypeByte

\* ------------------------------------------------------------------------
\* The dispatcher (C3, C4), over SpecDispatch
\* ------------------------------------------------------------------------

\* C3: process_commands(cmds) leaves the world, the entity map and the
\* render state exactly as applying the commands of cmds in order, each with
\* its own single-command call, from the same state: for batches that take
\* the spawn_batch path, batches whose spawn runs other commands split, and
\* batches that repeat an external id.
C3_BatchEqualsOneByOne == one_at_a_time = EcsNow

\* a batch of three went through spawn_batch with one external id twice,
\* into a world that already held entities
C3_Witness ==
    /\ Len(last_cmds) = 3
    /\ last_cmds[1].cmd_type = SpawnEntity
    /\ last_cmds[2].cmd_type = SpawnEntity
    /\ last_cmds[1].entity_id = last_cmds[2].entity_id
    /\ last_cmds[3].cmd_type = SetParent
    /\ n_cmds > 3
    /\ Cardinality(LiveEntitiesOf(world)) >= 3

\* a batch whose two spawns a despawn splits
C3_WitnessSplitRun ==
    /\ Len(last_cmds) = 3
    /\ last_cmds[1].cmd_type = SpawnEntity
    /\ last_cmds[2].cmd_type = DespawnEntity
    /\ last_cmds[3].cmd_type = SpawnEntity
    /\ n_cmds > 3

\* the external id has no entity in the map
Unmapped(em, external_id) ==
    \/ external_id < 0
    \/ external_id >= Len(em.map)
    \/ em.map[external_id + 1] = None

\* C4: a command of any type other than SpawnEntity whose entity id is
\* unmapped leaves the world, the entity map and the render state unchanged.
C4_UnmappedIsNoOp ==
    [][ \A c \in AllCmds :
          ( /\ last_cmds' = << c >>
            /\ n_cmds' = n_cmds + 1
            /\ c.cmd_type # SpawnEntity
            /\ Unmapped(entity_map, c.entity_id) )
          => UNCHANGED << world, entity_map, render_state >> ]_vars

\* a SetParent for an unmapped child onto a mapped parent was dispatched
C4_Witness ==
    /\ Len(last_cmds) = 1
    /\ last_cmds[1].cmd_type = SetParent
    /\ Unmapped(entity_map, last_cmds[1].entity_id)
    /\ ~Unmapped(entity_map, u32_from_le_bytes(last_cmds[1].payload, 0))

\* ------------------------------------------------------------------------
\* Slots (C5 - C8), over Spec
\* ------------------------------------------------------------------------

LiveEntities == LiveEntitiesOf(world)

\* the slot RenderState holds for an entity, None or Some(slot)
SlotOf(e) == get_slot(render_state, e)

\* C5: two distinct live entities never hold the same slot, in any state the
\* dispatcher, flush_pending_despawns, collect_dirty_staging, collect_gpu and
\* Engine::update can reach.
C5_DistinctEntitiesDistinctSlots ==
    ~render_state.panicked =>
        \A e1, e2 \in LiveEntities :
            (e1 # e2 /\ IsSome(SlotOf(e1)) /\ IsSome(SlotOf(e2)))
                => SlotOf(e1) # SlotOf(e2)

\* C6: with no despawn pending, every slot below gpu_count holds a live
\* entity whose entity_to_slot entry is that slot, and every live entity
\* with a slot is the entity slot_to_entity holds there.
C6_SlotMapsConsistent ==
    (~render_state.panicked /\ render_state.pending_despawns = << >>) =>
        /\ \A i \in 0..(render_state.gpu_count - 1) :
              /\ i < Len(render_state.slot_to_entity)
              /\ World_contains(world, render_state.slot_to_entity[i + 1])
              /\ SlotOf(render_state.slot_to_entity[i + 1]) = Some(i)
        /\ \A e \in LiveEntities :
              IsSome(SlotOf(e)) =>
                  /\ Unwrap(SlotOf(e)) < Len(render_state.slot_to_entity)
                  /\ render_state.slot_to_entity[Unwrap(SlotOf(e)) + 1] = e

\* the pending entries that have an assigned slot
SlottedPending(rs) ==
    Cardinality({ k \in 1..Len(rs.pending_despawns) :
                    IsSome(get_slot(rs, rs.pending_despawns[k])) })

\* C7: a flush_pending_despawns lowers gpu_count by exactly the number of
\* pending entries that have an assigned slot, empties the pending list, and
\* leaves every live entity that has a slot with a slot below gpu_count.
C7_FlushCompacts ==
    [][ last_op' = "flush_pending_despawns" =>
          /\ ~render_state'.panicked
          /\ render_state'.gpu_count =
                 render_state.gpu_count - SlottedPending(render_state)
          /\ render_state'.pending_despawns = << >>
          /\ \A e \in DOMAIN world'.comps :
                 LET o == get_slot(render_state', e)
                 IN  IsSome(o) => Unwrap(o) < render_state'.gpu_count ]_vars

\* some dirty bit is set
AnyDirty(rs) ==
    \/ rs.dirty_tracker.transform_dirty.bits # {}
    \/ rs.dirty_tracker.bounds_dirty.bits # {}
    \/ rs.dirty_tracker.meta_dirty.bits # {}

\* C8: when collect_dirty_staging returns, no dirty bit is set, whatever the
\* state (and gpu_count) it was called in.
C8_CollectDirtyStagingClears ==
    (last_op = "collect_dirty_staging" /\ ~render_state.panicked)
        => ~AnyDirty(render_state)

\* ------------------------------------------------------------------------
\* The scene hierarchy (C9, C10), over SpecHier
\* ------------------------------------------------------------------------

\* how many entries of the Children and OverflowChildren lists of the live
\* entities hold the external id
Occurrences(w, id) ==
    Cardinality({ ek \in LiveEntitiesOf(w) \X (1..MAX_CHILDREN) :
                    /\ ek[2] <= w.comps[ek[1]].Children.count
                    /\ w.comps[ek[1]].Children.slots[ek[2]] = id })
    + Cardinality({ ek \in LiveEntitiesOf(w) \X (1..MaxCmds) :
                      /\ IsSome(w.comps[ek[1]].OverflowChildren)
                      /\ ek[2] <= Len(Unwrap(w.comps[ek[1]].OverflowChildren))
                      /\ Unwrap(w.comps[ek[1]].OverflowChildren)[ek[2]] = id })

\* C9: each external id appears at most once over all the Children and
\* OverflowChildren lists of the live entities, whatever spawns, despawns
\* and SetParent commands came before.
C9_ChildListedOnce ==
    \A id \in HierIds : Occurrences(world, id) <= 1

\* the entity a mapped external id stands for
EntityOf(em, external_id) == Unwrap(EntityMap_get(em, external_id))

\* the items of an entity's OverflowChildren, empty when it has none
OverflowItems(w, e) ==
    IF IsSome(w.comps[e].OverflowChildren) THEN Unwrap(w.comps[e].OverflowChildren)
    ELSE << >>

\* a list holds the id
Holds(list, id) == \E k \in 1..Len(list) : list[k] = id

\* C10, the state part: Children.count never exceeds MAX_CHILDREN, and an
\* OverflowChildren component that is present is non-empty.
ChildrenBounded ==
    \A e \in LiveEntities :
        /\ world.comps[e].Children.count <= MAX_CHILDREN
        /\ IsSome(world.comps[e].OverflowChildren)
               => Unwrap(world.comps[e].OverflowChildren) # << >>

\* the premise of C10's step part: the step dispatches the SetParent c, its
\* child and its parent are mapped, and the parent's Children is full
OntoFullParent(c) ==
    /\ last_cmds' = << c >>
    /\ n_cmds' = n_cmds + 1
    /\ c.cmd_type = SetParent
    /\ ~Unmapped(entity_map, c.entity_id)
    /\ ~Unmapped(entity_map, u32_from_le_bytes(c.payload, 0))
    /\ LET p == EntityOf(entity_map, u32_from_le_bytes(c.payload, 0))
       IN  /\ World_contains(world, p)
           /\ world.comps[p].Children.count = MAX_CHILDREN

\* the conclusion of C10's step part: afterwards the parent has an
\* OverflowChildren that holds the child
ChildInOverflow(c) ==
    LET p == EntityOf(entity_map, u32_from_le_bytes(c.payload, 0))
    IN  /\ IsSome(world'.comps[p].OverflowChildren)
        /\ Holds(OverflowItems(world', p), c.entity_id)

\* the child of c is already one of the parent's inline children
AlreadyInline(c) ==
    LET p == EntityOf(entity_map, u32_from_le_bytes(c.payload, 0))
    IN  Holds(Children_as_slice(world.comps[p].Children), c.entity_id)

\* C10 as stated: Children.count is at most MAX_CHILDREN; every SetParent
\* onto a parent whose Children is already full puts the child into that
\* parent's OverflowChildren; an OverflowChildren that is present is
\* non-empty.
C10_AsStated ==
    /\ []ChildrenBounded
    /\ [][ \A c \in HierCmds : OntoFullParent(c) => ChildInOverflow(c) ]_vars

\* C10: Children.count is at most MAX_CHILDREN; a SetParent onto a parent
\* whose Children is already full, of a child that is not one of those
\* inline children, puts the child into that parent's OverflowChildren
\* (creating the component on the first overflow) and leaves Children as it
\* was; an OverflowChildren component, whenever present, is non-empty.
C10_ChildrenOverflow ==
    /\ []ChildrenBounded
    /\ [][ \A c \in HierCmds :
             (OntoFullParent(c) /\ ~AlreadyInline(c))
                 => /\ ChildInOverflow(c)
                    /\ LET p == EntityOf(entity_map, u32_from_le_bytes(c.payload, 0))
                       IN  world'.comps[p].Children = world.comps[p].Children ]_vars

\* a SetParent has just put a child into the OverflowChildren of a parent
\* whose Children is full
C10_Witness ==
    /\ Len(last_cmds) = 1
    /\ last_cmds[1].cmd_type = SetParent
    /\ \E e \in LiveEntities :
          /\ world.comps[e].Children.count = MAX_CHILDREN
          /\ Holds(OverflowItems(world, e), last_cmds[1].entity_id)
          /\ world.comps[e].ExternalId = u32_from_le_bytes(last_cmds[1].payload, 0)

\* ------------------------------------------------------------------------
\* The clock (C11 - C13), over SpecClock
\* ------------------------------------------------------------------------

\* C11: one call of Engine::update, whatever dt it is given (NaN and the
\* infinities included) and whatever the accumulator held, runs fixed_tick
\* at most 10 times: tick_count grows by at most 10 and never shrinks.
C11_AtMostTenTicks ==
    [][ last_op' = "update" =>
          /\ tick_count' >= tick_count
          /\ tick_count' - tick_count <= 10 ]_vars

\* an update given infinitely much time fired exactly 10 ticks, from an
\* accumulator that was not empty
C11_Witness ==
    /\ last_update # << >>
    /\ last_update[1].dt = F32_INFINITY
    /\ last_update[1].accumulator > 0
    /\ last_update[1].ticks = 10

\* the last operation was an update with a finite dt >= 0, from an
\* accumulator in [0, FIXED_DT)
OrdinaryFrame ==
    /\ last_update # << >>
    /\ f32_is_finite(last_update[1].dt)
    /\ last_update[1].dt >= 0
    /\ last_update[1].accumulator >= 0
    /\ last_update[1].accumulator < FIXED_DT

\* the exact sum of the accumulator and dt of the last update
ExactTime == last_update[1].accumulator + last_update[1].dt

\* after the update the accumulator is in [0, FIXED_DT) and
\* interpolation_alpha in [0, 1)
RemainderInRange ==
    /\ accumulator >= 0
    /\ accumulator < FIXED_DT
    /\ interpolation_alpha(accumulator) >= 0
    /\ interpolation_alpha(accumulator) < 16777216

\* two updates of half a step: the first fires no tick, the second one
HalfSteps ==
    /\ (last_update[1].accumulator = 0 /\ last_update[1].dt = FIXED_DT \div 2)
          => (last_update[1].ticks = 0 /\ accumulator = FIXED_DT \div 2)
    /\ (last_update[1].accumulator = FIXED_DT \div 2 /\ last_update[1].dt = FIXED_DT \div 2)
          => (last_update[1].ticks = 1 /\ accumulator = 0)

\* C12 as stated: an update with dt >= 0 whose accumulated time is at most
\* 10 * FIXED_DT fires floor((accumulator + dt) / FIXED_DT) ticks and leaves
\* the remainder of that division in the accumulator, which is then in
\* [0, FIXED_DT), with interpolation_alpha in [0, 1); two updates of half a
\* step fire one tick, on the second.
C12_AsStated ==
    (OrdinaryFrame /\ ExactTime <= 10 * FIXED_DT) =>
        /\ last_update[1].ticks = ExactTime \div FIXED_DT
        /\ accumulator = ExactTime % FIXED_DT
        /\ RemainderInRange
        /\ HalfSteps

\* how far the ticks fired and the time left are from the time given
TimeError ==
    LET d == last_update[1].ticks * FIXED_DT + accumulator - ExactTime
    IN  IF d < 0 THEN 0 - d ELSE d

\* C12: an update with dt >= 0 whose accumulated time the clamp leaves alone
\* fires floor((accumulator + dt) / FIXED_DT) ticks or one more, the ticks
\* and the time left add up to the time given within 2^-25 s (the f32
\* roundings of the sum and of the subtractions), the accumulator is left
\* in [0, FIXED_DT) and interpolation_alpha in [0, 1); two updates of half a
\* step fire one tick, on the second.
C12_TicksAndRemainder ==
    (OrdinaryFrame /\ ~f32_gt(f32_round(ExactTime), FIXED_DT_TIMES_10)) =>
        /\ last_update[1].ticks >= ExactTime \div FIXED_DT
        /\ last_update[1].ticks <= ExactTime \div FIXED_DT + 1
        /\ TimeError <= 32
        /\ RemainderInRange
        /\ HalfSteps

\* an update of five steps' time, which as an f32 is less than five times
\* FIXED_DT, fired five ticks
C12_Witness ==
    /\ OrdinaryFrame
    /\ last_update[1].dt = f32_round(FIXED_DT * 5)
    /\ last_update[1].dt < FIXED_DT * 5
    /\ last_update[1].ticks = 5

\* the second of two updates of half a step fired the one tick
C12_WitnessHalfSteps ==
    /\ OrdinaryFrame
    /\ last_update[1].accumulator = FIXED_DT \div 2
    /\ last_update[1].dt = FIXED_DT \div 2
    /\ tick_count = 1
    /\ n_updates = 2

\* the engine after the last update and the engine after StepsOf(dt) updates
\* of one FIXED_DT each from the same state agree on tick_count and on the
\* Position of every entity
SameTicksAndPositions ==
    LET stepwise == last_update[1].stepwise
    IN  /\ stepwise.tick_count = tick_count
        /\ DOMAIN stepwise.world.comps = DOMAIN world.comps
        /\ \A e \in DOMAIN world.comps :
               stepwise.world.comps[e].Position = world.comps[e].Position

\* C13 as stated: for every N >= 1 and every engine state, N updates of
\* FIXED_DT and one update of N * FIXED_DT end with the same tick_count and
\* the same Position of every entity
C13_AsStated ==
    (last_update # << >> /\ StepsOf(last_update[1].dt) >= 1)
        => SameTicksAndPositions

\* C13: for 1 <= N <= 10 and an engine whose accumulator is 0, N updates of
\* FIXED_DT and one update of N * FIXED_DT end with the same tick_count and
\* the same Position of every entity
C13_StepsAgree ==
    (/\ last_update # << >>
     /\ StepsOf(last_update[1].dt) \in 1..10
     /\ last_update[1].accumulator = 0)
        => SameTicksAndPositions

\* an update of three steps or more from an accumulator of 0, on an engine
\* that had ticked before, with both entities moved
C13_Witness ==
    /\ last_update # << >>
    /\ StepsOf(last_update[1].dt) \in 3..10
    /\ last_update[1].accumulator = 0
    /\ last_update[1].ticks = StepsOf(last_update[1].dt)
    /\ tick_count > last_update[1].ticks
    /\ \A e \in DOMAIN world.comps : world.comps[e].Position # <<0, 0, 0>>
    /\ Cardinality(DOMAIN world.comps) = 2

\* ------------------------------------------------------------------------
\* The hierarchy under Engine::update (C14, C15), over SpecTree
\* ------------------------------------------------------------------------

\* the local matrix of an entity: what transform_system computes for it
LocalMatrix(e) ==
    from_scale_rotation_translation(world.comps[e].Scale, world.comps[e].Rotation,
                                    world.comps[e].Position)

\* the live entities the Parent of e resolves to through the entity map
ParentEntities(e) ==
    { pr[2] : pr \in { q \in EntityMap_iter_mapped(entity_map) :
                          q[1] = world.comps[e].Parent /\ World_contains(world, q[2]) } }

ParentEntity(e) == CHOOSE p \in ParentEntities(e) : TRUE

\* the Parent chain of e reaches a root within hops steps, through live
\* entities only
RECURSIVE ChainResolves(_, _)
ChainResolves(e, hops) ==
    \/ world.comps[e].Parent = U32_MAX
    \/ /\ hops > 0
       /\ ParentEntities(e) # { }
       /\ ChainResolves(ParentEntity(e), hops - 1)

\* the number of entities on the chain from e to its root
RECURSIVE ChainDepth(_)
ChainDepth(e) ==
    IF world.comps[e].Parent = U32_MAX THEN 1 ELSE 1 + ChainDepth(ParentEntity(e))

\* the product of the local matrices from the root down to e
RECURSIVE ChainProduct(_)
ChainProduct(e) ==
    IF world.comps[e].Parent = U32_MAX
    THEN LocalMatrix(e)
    ELSE Mat4Mul(ChainProduct(ParentEntity(e)), LocalMatrix(e))

\* C14: after Engine::update every Active entity whose Parent chain resolves
\* to live entities has as ModelMatrix the product of the local matrices
\* from the root of its chain down to itself, chains of depth 3 included
C14_WorldMatrixIsChainProduct ==
    last_op = "update" =>
        \A e \in DOMAIN world.comps :
            (world.comps[e].Active /\ ChainResolves(e, Cardinality(TreeIds)))
                => world.comps[e].ModelMatrix = ChainProduct(e)

\* following Parent links from e, through live entities, reaches target in
\* one to hops steps
RECURSIVE ReachesByParent(_, _, _)
ReachesByParent(e, target, hops) ==
    /\ hops > 0
    /\ ParentEntities(e) # { }
    /\ \/ ParentEntity(e) = target
       \/ ReachesByParent(ParentEntity(e), target, hops - 1)

\* e is its own ancestor: a self-parent or a member of a cycle
OnCycle(e) == ReachesByParent(e, e, Cardinality(TreeIds))

\* what one pass of propagate_transforms leaves in e: the parent's local
\* matrix times e's own, or e's own where the Parent is none or unresolved
OnePassMatrix(e) ==
    IF world.comps[e].Parent # U32_MAX /\ ParentEntities(e) # { }
    THEN Mat4Mul(LocalMatrix(ParentEntity(e)), LocalMatrix(e))
    ELSE LocalMatrix(e)

\* C15: Engine::update terminates for every Parent relation, self-parents
\* and cycles included: wherever some entity is its own ancestor an update
\* of one step runs to its end, counts its tick and leaves every entity a
\* matrix, and every update taken has completed without a panic and has left
\* in every entity, those on a cycle included, the matrix of one propagation
\* pass
C15_UpdateTerminatesOnCycles ==
    /\ ((\E e \in DOMAIN world.comps : OnCycle(e)) /\ ~render_state.panicked) =>
           LET after == update(EngineNow, FIXED_DT)
           IN  /\ ~after.render_state.panicked
               /\ after.tick_count = tick_count + 1
               /\ \A e \in DOMAIN after.world.comps :
                      Len(after.world.comps[e].ModelMatrix) = 16
    /\ last_op = "update" =>
           /\ ~render_state.panicked
           /\ last_update[1].ticks = 1
           /\ \A e \in DOMAIN world.comps : world.comps[e].ModelMatrix = OnePassMatrix(e)

\* an update has run on a world where one entity is its own parent and the
\* other two are each other's parent
C15_Witness ==
    /\ last_op = "update"
    /\ \E e \in DOMAIN world.comps :
           /\ ParentEntities(e) = { e }
           /\ \A o \in DOMAIN world.comps \ { e } :
                  /\ OnCycle(o)
                  /\ ParentEntities(o) \cap { o, e } = { }

\* an update has run on a world whose three entities form one cycle
C15_WitnessCycleOfThree ==
    /\ last_op = "update"
    /\ \A e \in DOMAIN world.comps :
           /\ OnCycle(e)
           /\ ~ReachesByParent(e, e, 2)

\* ------------------------------------------------------------------------
\* The ring and the flat parser (C16 - C19), over SpecRing
\* ------------------------------------------------------------------------

\* the bytes between the read_head and the write_head a drain loaded, laid
\* out contiguously
BytesOfDrain == read_bytes(c_rh0, available(c_rh0, c_wh))

\* C16: the commands a drain returns are the commands parse_commands returns
\* for the bytes between read_head and write_head laid out contiguously,
\* wherever read_head is, when the bytes wrap around the end of the data
\* region, and when they hold an unknown type byte or a truncated command
C16_DrainEqualsParse ==
    c_pc = "publish" => c_out = parse_commands(BytesOfDrain)

\* a drain whose bytes wrap around the end of the data region has returned
\* a command and stopped short of write_head at a truncated command
C16_Witness ==
    /\ c_pc = "publish"
    /\ c_rh0 > 0
    /\ c_wh < c_rh0
    /\ Len(c_out) >= 1
    /\ c_rh # c_wh
    /\ data[c_rh] \in 0..13

\* a drain from a read_head other than 0 has stopped at an unknown type byte
C16_WitnessUnknownType ==
    /\ c_pc = "publish"
    /\ c_rh0 > 0
    /\ c_rh # c_wh
    /\ data[c_rh] = BadTypeByte
    /\ Len(BytesOfDrain) > 1

\* C17: for every sequence of valid commands (types 0..13, any entity id,
\* payload padded with zeros to 16 bytes), parse_commands of the
\* concatenation of their encodings returns the same sequence
C17_RoundTrip ==
    /\ drained = produced
    /\ parse_commands(stream) = produced

\* a buffer of two commands was parsed back: one with a 16-byte payload that
\* holds type bytes, one with the largest entity id
C17_Witness ==
    /\ Len(drained) = MaxCodecCmds
    /\ Len(stream) > 5 * MaxCodecCmds
    /\ \E i \in 1..Len(drained) :
           /\ payload_size(drained[i].cmd_type) = 16
           /\ drained[i].payload[2] = 14
    /\ \E i \in 1..Len(drained) : drained[i].entity_id = U32_MAX

\* the total on-wire size of a sequence of commands
RECURSIVE TotalSize(_)
TotalSize(cmds) ==
    IF cmds = << >> THEN 0
    ELSE message_size(Head(cmds).cmd_type) + TotalSize(Tail(cmds))

\* C18: under every interleaving of drains and producer writes, read_head
\* changes only at the end of a drain; it then moves forward in ring order by
\* the total size of the commands the drain returns, stays below the
\* capacity, and does not pass the write_head the drain observed
C18_ReadHeadAdvance ==
    [][ /\ read_head' # read_head => (c_pc = "publish" /\ c_pc' = "idle")
        /\ (c_pc = "publish" /\ c_pc' = "idle") =>
               /\ read_head' = (read_head + TotalSize(c_out)) % Cap
               /\ TotalSize(c_out) <= available(read_head, c_wh)
               /\ TotalSize(c_out) < Cap
               /\ read_head' \in 0..(Cap - 1)
               /\ drained' = drained \o c_out ]_vars

\* a second or later drain has moved read_head around the end of the data
\* region by the size of the commands it returned and stopped short of the
\* write_head it had observed
C18_Witness ==
    /\ c_pc = "idle"
    /\ n_drains >= 2
    /\ Len(c_out) >= 1
    /\ read_head = (c_rh0 + TotalSize(c_out)) % Cap
    /\ read_head < c_rh0
    /\ read_head # c_wh

\* a step of the consumer: one of the steps of a drain
ConsumerStep == c_pc' # c_pc \/ c_rh' # c_rh \/ c_out' # c_out

\* C19: a drain stores to no shared location other than read_head: its
\* steps leave write_head, the capacity word, the heartbeat, supervisor-flag
\* and overflow-counter words and every byte of the data region as they
\* were; read_head is stored exactly once per drain, by the drain's last
\* step, when the commands it returns have all been copied out
C19_DrainWritesOnlyReadHead ==
    [][ /\ ConsumerStep =>
               /\ data' = data
               /\ write_head' = write_head
               /\ header' = header
               /\ c_pc' # "idle" => (read_head' = read_head /\ c_writes' = << >>)
               /\ c_pc' = "idle" =>
                      /\ c_writes' = << "read_head" >>
                      /\ c_out' = c_out
                      /\ drained' = drained \o c_out
        /\ read_head' # read_head => (ConsumerStep /\ c_pc' = "idle") ]_vars

\* a drain that returned two commands or more, while the producer held
\* unpublished bytes, has finished with its single store to read_head
C19_Witness ==
    /\ c_pc = "idle"
    /\ c_writes = << "read_head" >>
    /\ Len(c_out) >= 2
    /\ read_head # c_rh0
    /\ p_wh # write_head
    /\ header.capacity = Cap

\* ------------------------------------------------------------------------
\* The staging buffer (C20), over Spec
\* ------------------------------------------------------------------------

\* the ascending list of the members of a set of naturals
RECURSIVE Ascending(_)
Ascending(S) ==
    IF S = {} THEN << >>
    ELSE LET m == CHOOSE x \in S : \A y \in S : x <= y
         IN  << m >> \o Ascending(S \ {m})

\* the slots below gpu_count with the transform, bounds or meta bit set
DirtySlots(rs) ==
    { s \in 0..(rs.gpu_count - 1) :
        \/ s \in rs.dirty_tracker.transform_dirty.bits
        \/ s \in rs.dirty_tracker.bounds_dirty.bits
        \/ s \in rs.dirty_tracker.meta_dirty.bits }

\* what collect_dirty_staging returns in the current state
StagingNow == collect_dirty_staging(render_state, world)

\* the result of a call that returns is as C20 says
StagingAsSpecified ==
    LET r == StagingNow[2]
    IN  /\ r.dirty_indices = Ascending(DirtySlots(render_state))
        /\ r.dirty_count = Len(r.dirty_indices)
        /\ Len(r.staging) = 32 * Len(r.dirty_indices)
        /\ \A k \in 1..Len(r.dirty_indices) :
               SubSeq(r.staging, 32 * (k - 1) + 1, 32 * k)
                   = StagingPacket(StagingNow[1], world, r.dirty_indices[k])
        /\ r.dirty_ratio = IF render_state.gpu_count = 0
                           THEN << 0, 1 >>
                           ELSE << r.dirty_count, render_state.gpu_count >>

\* C20: collect_dirty_staging returns as dirty_indices the ascending list of
\* exactly the slots below gpu_count whose transform, bounds or meta bit is
\* set, as dirty_count its length, as staging 32 words per listed slot in
\* the same order, and as dirty_ratio dirty_count / gpu_count, 0 when
\* gpu_count is 0
C20_DirtyStagingResult ==
    [][ (last_op' = "collect_dirty_staging" /\ ~render_state'.panicked)
            => (last_staging' = << StagingNow[2] >> /\ StagingAsSpecified) ]_vars

\* a call on two slots or more has returned some of them and not all: the
\* first slot is clean and left out, a later one is dirty and listed
C20_Witness ==
    /\ last_op = "collect_dirty_staging"
    /\ ~render_state.panicked
    /\ render_state.gpu_count >= 2
    /\ last_staging # << >>
    /\ last_staging[1].dirty_count >= 1
    /\ last_staging[1].dirty_count < render_state.gpu_count
    /\ last_staging[1].dirty_indices[1] >= 1
    /\ Len(last_staging[1].staging) = 32 * last_staging[1].dirty_count

\* a call with gpu_count 0 has returned the empty result
C20_WitnessEmpty ==
    /\ last_op = "collect_dirty_staging"
    /\ render_state.gpu_count = 0
    /\ n_cmds >= 1
    /\ last_staging = << [staging |-> << >>, dirty_indices |-> << >>,
                          dirty_count |-> 0, dirty_ratio |-> << 0, 1 >>] >>

\* ------------------------------------------------------------------------
\* The dispatcher's marks and the frame-end collection (C21, C22)
\* ------------------------------------------------------------------------

\* the dirty bits each setter is to mark
MarksOf(t) ==
    CASE t \in { SetPosition, SetRotation, SetScale } -> { "transform", "bounds" }
      [] t \in { SetTextureLayer, SetMeshHandle, SetRenderPrimitive,
                 SetPrimParams0, SetPrimParams1 } -> { "meta" }
      [] t = SetParent -> { "transform" }
      [] OTHER -> { }

\* the three bit sets of a render state, by name
DirtyBits(rs, name) ==
    CASE name = "transform" -> rs.dirty_tracker.transform_dirty.bits
      [] name = "bounds" -> rs.dirty_tracker.bounds_dirty.bits
      [] OTHER -> rs.dirty_tracker.meta_dirty.bits

\* the slot of the entity the external id maps to, << >> when it has none
SlotOfId(id) ==
    LET o == EntityMap_get(entity_map, id)
    IN  IF IsSome(o) /\ World_contains(world, Unwrap(o))
        THEN get_slot(render_state, Unwrap(o))
        ELSE None

\* C21: a setter command on an existing slotted entity adds to the dirty
\* bits exactly the bits assigned to its type, on that entity's slot:
\* transform and bounds for SetPosition, SetRotation, SetScale; meta for
\* SetTextureLayer, SetMeshHandle, SetRenderPrimitive, SetPrimParams0 and 1;
\* transform for SetParent; none for SetVelocity, Noop, SetListenerPosition
C21_SettersMarkTheirBits ==
    [][ (/\ last_op' = "process_commands"
         /\ Len(last_cmds') = 1
         /\ last_cmds'[1].cmd_type \notin { SpawnEntity, DespawnEntity }
         /\ IsSome(SlotOfId(last_cmds'[1].entity_id)))
            => \A name \in { "transform", "bounds", "meta" } :
                   DirtyBits(render_state', name)
                       = DirtyBits(render_state, name)
                           \cup (IF name \in MarksOf(last_cmds'[1].cmd_type)
                                 THEN { Unwrap(SlotOfId(last_cmds'[1].entity_id)) }
                                 ELSE { }) ]_vars

\* SetPosition on the entity of slot 1, from clean bits, has marked the
\* transform and bounds bits of slot 1 and nothing else
C21_Witness ==
    /\ last_op = "process_commands"
    /\ Len(last_cmds) = 1
    /\ last_cmds[1].cmd_type = SetPosition
    /\ SlotOfId(last_cmds[1].entity_id) = Some(1)
    /\ DirtyBits(render_state, "transform") = { 1 }
    /\ DirtyBits(render_state, "bounds") = { 1 }
    /\ DirtyBits(render_state, "meta") = { }

\* SetParent, from clean bits, has marked the child's transform bit only
C21_WitnessSetParent ==
    /\ last_op = "process_commands"
    /\ Len(last_cmds) = 1
    /\ last_cmds[1].cmd_type = SetParent
    /\ IsSome(SlotOfId(last_cmds[1].entity_id))
    /\ DirtyBits(render_state, "transform") = { Unwrap(SlotOfId(last_cmds[1].entity_id)) }
    /\ DirtyBits(render_state, "bounds") = { }
    /\ DirtyBits(render_state, "meta") = { }

\* SetVelocity, from clean bits, has changed the Velocity and marked nothing
C21_WitnessSetVelocity ==
    /\ last_op = "process_commands"
    /\ Len(last_cmds) = 1
    /\ last_cmds[1].cmd_type = SetVelocity
    /\ \E e \in DOMAIN world.comps : world.comps[e].Velocity # Vec3(0, 0, 0)
    /\ \A name \in { "transform", "bounds", "meta" } : DirtyBits(render_state, name) = { }

\* the bounds record of the slot of every live slotted entity holds the
\* entity's Position
BoundsCurrent ==
    \A e \in LiveEntitiesOf(world) :
        IsSome(get_slot(render_state, e)) =>
            LET s == Unwrap(get_slot(render_state, e)) + 1
            IN  /\ s <= Len(render_state.gpu_bounds)
                /\ SubSeq(render_state.gpu_bounds[s], 1, 3) = world.comps[e].Position

\* the last update fired a tick that moved a live entity
TickMoved ==
    /\ last_update # << >>
    /\ last_update[1].ticks >= 1
    /\ \E e \in LiveEntitiesOf(world) : world.comps[e].Velocity # Vec3(0, 0, 0)

\* C22: after the frame-end collection of a frame in which a tick moved an
\* entity by its Velocity, the bounds record of the slot of every slotted
\* entity equals the entity's current Position: after the full collect at
\* the end of Engine::update, and after the calls of the dirty-staging path
\* that follow it
C22_MovedPositionExposed ==
    (/\ TickMoved
     /\ ~render_state.panicked
     /\ last_op \in { "update", "collect_dirty_staging", "collect_and_cache_dirty" })
        => BoundsCurrent

\* ------------------------------------------------------------------------
\* SetParent and DespawnEntity (C23 - C25)
\* ------------------------------------------------------------------------

\* for every live entity: the set of ids in its Children, whether it has an
\* OverflowChildren component, and the set of ids in it
Membership(w) ==
    [e \in LiveEntitiesOf(w) |->
        [children |-> { w.comps[e].Children.slots[i] : i \in 1..w.comps[e].Children.count },
         has_overflow |-> IsSome(w.comps[e].OverflowChildren),
         overflow |-> IF IsSome(w.comps[e].OverflowChildren)
                      THEN { Unwrap(w.comps[e].OverflowChildren)[i] :
                               i \in 1..Len(Unwrap(w.comps[e].OverflowChildren)) }
                      ELSE { }]]

\* the last dispatch was the same SetParent twice
SetParentTwice(cmds) ==
    /\ Len(cmds) = 2
    /\ cmds[1] = cmds[2]
    /\ cmds[1].cmd_type = SetParent

\* C23: SetParent(child, p) applied a second time directly after the first
\* leaves the ids of every Children, the ids of every OverflowChildren and
\* the presence of every OverflowChildren as the first application left
\* them, from every state, a parent whose Children is full included
C23_SetParentIdempotent ==
    [][ (last_op' = "process_commands" /\ SetParentTwice(last_cmds')) =>
            Membership(world')
                = Membership(process_commands(<< last_cmds'[1] >>, EcsNow).world) ]_vars

\* the same SetParent was applied twice onto a parent whose Children is
\* full: the child is in that parent's OverflowChildren, once
C23_Witness ==
    /\ last_op = "process_commands"
    /\ SetParentTwice(last_cmds)
    /\ \E p \in LiveEntitiesOf(world) :
           /\ world.comps[p].ExternalId = u32_from_le_bytes(last_cmds[1].payload, 0)
           /\ world.comps[p].Children.count = MAX_CHILDREN
           /\ world.comps[p].OverflowChildren = Some(<< last_cmds[1].entity_id >>)

\* how often id occurs in the Children and the OverflowChildren of entity e
Listed(w, e, id) ==
    Cardinality({ i \in 1..w.comps[e].Children.count :
                    w.comps[e].Children.slots[i] = id })
      + (IF IsSome(w.comps[e].OverflowChildren)
         THEN Cardinality({ i \in 1..Len(Unwrap(w.comps[e].OverflowChildren)) :
                              Unwrap(w.comps[e].OverflowChildren)[i] = id })
         ELSE 0)

\* cmd is a SetParent of a mapped child onto an id other than U32_MAX that
\* the entity map of st does not map
SetParentUnmapped(cmd, st) ==
    /\ cmd.cmd_type = SetParent
    /\ IsSome(EntityMap_get(st.entity_map, cmd.entity_id))
    /\ u32_from_le_bytes(cmd.payload, 0) # U32_MAX
    /\ ~IsSome(EntityMap_get(st.entity_map, u32_from_le_bytes(cmd.payload, 0)))

\* the entity of the mapped old parent of child, as a set (empty when the
\* child has no parent or its parent id is not mapped)
OldParentOf(st, child_id) ==
    LET child == Unwrap(EntityMap_get(st.entity_map, child_id))
        old_id == st.world.comps[child].Parent
    IN  IF old_id = U32_MAX \/ ~IsSome(EntityMap_get(st.entity_map, old_id))
        THEN { }
        ELSE { Unwrap(EntityMap_get(st.entity_map, old_id)) }
               \cap LiveEntitiesOf(st.world)

\* the effect of cmd, a SetParent onto an unmapped id, from st to the
\* world w2: Parent is the new id, the old parent lists the child no more,
\* and no list gains it
UnmappedParentEffect(cmd, st, w2) ==
    LET child == Unwrap(EntityMap_get(st.entity_map, cmd.entity_id))
    IN  /\ w2.comps[child].Parent = u32_from_le_bytes(cmd.payload, 0)
        /\ \A e \in LiveEntitiesOf(w2) :
               /\ e \in LiveEntitiesOf(st.world)
               /\ Listed(w2, e, cmd.entity_id) <= Listed(st.world, e, cmd.entity_id)
        /\ \A o \in OldParentOf(st, cmd.entity_id) :
               Listed(w2, o, cmd.entity_id) = 0

\* C24: SetParent(child, p) with child mapped and p, other than U32_MAX,
\* not mapped still removes the child from its old parent's list and sets
\* the child's Parent to p, adds the child to no Children or
\* OverflowChildren, and raises no error
C24_UnmappedParent ==
    [][ (/\ last_op' = "process_commands"
         /\ Len(last_cmds') = 1
         /\ SetParentUnmapped(last_cmds'[1], EcsNow)) =>
            /\ UnmappedParentEffect(last_cmds'[1], EcsNow, world')
            /\ ~render_state'.panicked ]_vars

\* the last dispatch was one DespawnEntity
OneDespawn(cmds) == Len(cmds) = 1 /\ cmds[1].cmd_type = DespawnEntity

\* what DespawnEntity(id) of a mapped id does to the store, the map cell and
\* the pending despawns, from st to st2
DespawnedFrom(st, st2, id) ==
    LET entity == Unwrap(EntityMap_get(st.entity_map, id))
    IN  /\ st2.render_state.pending_despawns
              = Append(st.render_state.pending_despawns, entity)
        /\ World_contains(st.world, entity)
        /\ ~World_contains(st2.world, entity)
        /\ ~IsSome(EntityMap_get(st2.entity_map, id))
        /\ st2.entity_map.next_id = st.entity_map.next_id
        /\ \A other \in (0..Len(st.entity_map.map)) \ { id } :
               EntityMap_get(st2.entity_map, other) = EntityMap_get(st.entity_map, other)

C25_WitnessNotAllocated ==
    /\ last_op = "process_commands"
    /\ OneDespawn(last_cmds)
    /\ n_cmds = 2
    /\ Len(render_state.pending_despawns) = 1
    /\ entity_map.next_id = 0
    /\ entity_map.free_list = << >>

\* ------------------------------------------------------------------------
\* EntityMap (C26, C27)
\* ------------------------------------------------------------------------

\* the ids on the free list
FreeIds(em) == { em.free_list[i] : i \in 1..Len(em.free_list) }

\* every id on the free list of em is smaller than next_id, was returned by
\* an earlier allocate and was removed afterwards
FreeListRecorded(em, log) ==
    \A id \in FreeIds(em) :
        /\ id < em.next_id
        /\ id \in log.returned
        /\ id \in log.freed

\* C26: over every sequence of allocate, insert, remove and shrink_to_fit
\* next_id never decreases, every id on the free list is smaller than
\* next_id and was returned by an earlier allocate and removed afterwards,
\* and allocate returns the most recently free-listed id (the free list
\* grows at its end only and keeps its order) when the free list is
\* non-empty, and otherwise returns next_id and increments it
C26_EntityMapSequences ==
    [][ /\ entity_map'.next_id >= entity_map.next_id
        /\ FreeListRecorded(entity_map', map_log')
        /\ last_op' = "allocate" =>
              IF entity_map.free_list # << >>
              THEN /\ map_log'.last = << entity_map.free_list[Len(entity_map.free_list)] >>
                   /\ entity_map'.free_list
                         = SubSeq(entity_map.free_list, 1, Len(entity_map.free_list) - 1)
                   /\ entity_map'.next_id = entity_map.next_id
              ELSE /\ map_log'.last = << entity_map.next_id >>
                   /\ entity_map'.next_id = entity_map.next_id + 1
                   /\ entity_map'.free_list = << >>
        /\ last_op' = "remove" =>
              \/ entity_map'.free_list = entity_map.free_list
              \/ /\ Len(entity_map'.free_list) = Len(entity_map.free_list) + 1
                 /\ SubSeq(entity_map'.free_list, 1, Len(entity_map.free_list))
                       = entity_map.free_list
        /\ last_op' = "insert" => entity_map'.free_list = entity_map.free_list
        /\ last_op' = "shrink_to_fit" =>
              entity_map'.free_list
                = SelectSeq(entity_map.free_list,
                            LAMBDA id : id \in FreeIds(entity_map')) ]_vars

\* allocate has just returned a recycled id while a removed id of a later
\* allocate is still on the free list
C26_Witness ==
    /\ last_op = "allocate"
    /\ map_log.last # << >>
    /\ map_log.last[1] + 1 < entity_map.next_id
    /\ entity_map.free_list # << >>
    /\ map_log.freed # { }

\* the external ids em maps
MappedIds(em) == { p[1] : p \in EntityMap_iter_mapped(em) }

\* C27: shrink_to_fit changes get(id) for no id; afterwards capacity() is
\* the highest mapped id plus one, 0 when nothing is mapped, and the free
\* list holds only ids below capacity()
C27_ShrinkToFit ==
    [][ last_op' = "shrink_to_fit" =>
          /\ \A id \in 0..(EntityMap_capacity(entity_map) + 1) :
                 EntityMap_get(entity_map', id) = EntityMap_get(entity_map, id)
          /\ IF MappedIds(entity_map) = { }
             THEN EntityMap_capacity(entity_map') = 0
             ELSE /\ EntityMap_capacity(entity_map') - 1 \in MappedIds(entity_map)
                  /\ \A id \in MappedIds(entity_map) :
                         id < EntityMap_capacity(entity_map')
          /\ \A id \in FreeIds(entity_map') : id < EntityMap_capacity(entity_map') ]_vars

\* shrink_to_fit has run on a map with a mapped id: an id at or above the
\* new capacity that was on the free list is gone from it, one below the
\* capacity is still there
C27_Witness ==
    /\ last_op = "shrink_to_fit"
    /\ map_log.n = 6
    /\ EntityMap_capacity(entity_map) >= 1
    /\ entity_map.free_list # << >>
    /\ \E id \in map_log.freed :
           /\ id >= EntityMap_capacity(entity_map)
           /\ id \notin FreeIds(entity_map)

\* shrink_to_fit has run on a map that maps nothing: capacity 0 and an
\* empty free list, with ids freed before
C27_WitnessEmpty ==
    /\ last_op = "shrink_to_fit"
    /\ EntityMap_capacity(entity_map) = 0
    /\ entity_map.free_list = << >>
    /\ map_log.freed # { }
    /\ map_log.n = 3

\* ------------------------------------------------------------------------
\* The listener (C28)
\* ------------------------------------------------------------------------

\* the finite f32 with bits b in units of 2^-26, rounded towards zero
f32_units(b) ==
    LET u == f32_unpack(b)
        mag == IF u.e + 26 >= 0 THEN u.m * Pow2(u.e + 26)
               ELSE IF u.e + 26 < 0 - 24 THEN 0
               ELSE u.m \div Pow2(0 - (u.e + 26))
    IN  IF u.s = 1 THEN 0 - mag ELSE mag

Abs(x) == IF x < 0 THEN 0 - x ELSE x

\* the velocity of one component that a command from prev to new sets
VelOf(new, prev) == f32_bits_div(f32_bits_sub(new, prev), FIXED_DT_bits)

\* x after adding step to it k times, each sum rounded
RECURSIVE SumOf(_, _, _)
SumOf(x, step, k) == IF k = 0 THEN x ELSE SumOf(f32_bits_add(x, step), step, k - 1)

\* the batch holds SetListenerPosition commands only
ListenerOnly(cmds) ==
    /\ cmds # << >>
    /\ \A i \in 1..Len(cmds) : cmds[i].cmd_type = SetListenerPosition

\* the values prev_pos can hold: the initial 0.0 and the values commands name
PrevValues == ListenerValues \cup { 0 }

\* the dispatch of SetListenerPosition commands: the last command's
\* position becomes pos and prev_pos, the velocity is the step from the
\* prev_pos the command before it left, divided by FIXED_DT; entities, map
\* and render stage stay
ListenerCommandStep ==
    (last_op' = "process_commands" /\ ListenerOnly(last_cmds')) =>
        LET n == Len(last_cmds')
            new == PayloadVec3(last_cmds'[n])
            before == IF n = 1 THEN listener.prev_pos
                      ELSE PayloadVec3(last_cmds'[n - 1])
        IN  /\ listener'.pos = new
            /\ listener'.prev_pos = new
            /\ \A i \in 1..3 : listener'.vel[i] = VelOf(new[i], before[i])
            /\ UNCHANGED << world, entity_map, render_state, accumulator, tick_count >>

\* an update: every tick it fires adds the rounded vel * FIXED_DT to pos;
\* prev_pos and vel stay
ListenerTickStep ==
    last_op' = "update" =>
        /\ listener'.prev_pos = listener.prev_pos
        /\ listener'.vel = listener.vel
        /\ \A i \in 1..3 :
               listener'.pos[i]
                 = SumOf(listener.pos[i], f32_bits_mul(listener.vel[i], FIXED_DT_bits),
                         tick_count' - tick_count)

\* the update follows a dispatch whose last command was SetListenerPosition
AfterListenerCommand ==
    /\ last_op = "process_commands"
    /\ last_cmds # << >>
    /\ last_cmds[Len(last_cmds)].cmd_type = SetListenerPosition
    /\ last_op' = "update"

\* C28 as stated: each SetListenerPosition of a batch, in order, sets the
\* velocity to (new - prev_pos) / FIXED_DT and pos and prev_pos to new,
\* changing no entity, map or render-stage state; a tick adds vel * FIXED_DT
\* to pos and leaves prev_pos and vel; and k ticks after a command from
\* prev_pos = p the position is new + k * (new - p)
C28_AsStated ==
    [][ /\ ListenerCommandStep
        /\ ListenerTickStep
        /\ AfterListenerCommand =>
              \A i \in 1..3 : \A p \in PrevValues :
                  listener.vel[i] = VelOf(listener.pos[i], p) =>
                      /\ f32_unpack(listener'.pos[i]).cls = "fin"
                      /\ f32_units(listener'.pos[i])
                            = f32_units(listener.pos[i])
                                + (tick_count' - tick_count)
                                    * (f32_units(listener.pos[i]) - f32_units(p)) ]_vars

\* C28, corrected: as above, but k ticks after a command from prev_pos = p
\* the position is new + k * (new - p) up to the rounding of the division,
\* the product and the k sums: the difference is at most
\* k * 2^-22 * (|new| + k * |new - p|)
C28_ListenerExtrapolates ==
    [][ /\ ListenerCommandStep
        /\ ListenerTickStep
        /\ AfterListenerCommand =>
              \A i \in 1..3 : \A p \in PrevValues :
                  listener.vel[i] = VelOf(listener.pos[i], p) =>
                      LET k == tick_count' - tick_count
                          new == f32_units(listener.pos[i])
                          d == new - f32_units(p)
                          size == Abs(new) + k * Abs(d)
                      IN  /\ f32_unpack(listener'.pos[i]).cls = "fin"
                          /\ Abs(f32_units(listener'.pos[i]) - (new + k * d))
                                <= k * (size \div 4194304 + 1) + 1 ]_vars

\* two ticks after a command that moved the listener's x from -1.0 to 0.25
\* its x is below the 2.75 that new + 2 * (new - p) gives
C28_Witness ==
    /\ last_op = "update"
    /\ n_updates = 1
    /\ tick_count = 2
    /\ listener.prev_pos[1] = f32_pack(0, 8388608, 0 - 25)
    /\ listener.vel[1] = VelOf(f32_pack(0, 8388608, 0 - 25), f32_pack(1, 8388608, 0 - 23))
    /\ f32_units(listener.pos[1]) < 11 * 16777216
    /\ f32_units(listener.pos[1]) > 11 * 16777216 - 64

\* ------------------------------------------------------------------------
\* Who writes which component (C29)
\* ------------------------------------------------------------------------

\* the components other than ModelMatrix and the child lists
PlainFields ==
    { "Position", "Rotation", "Scale", "Velocity", "BoundingRadius",
      "TextureLayerIndex", "MeshHandle", "RenderPrimitive", "PrimitiveParams",
      "ExternalId", "Parent", "Active" }

ListFields == { "Children", "OverflowChildren" }

\* the entities alive before and after the step
Surviving == LiveEntitiesOf(world) \cap LiveEntitiesOf(world')

\* the step is the dispatch of one command
OneCommand == last_op' = "process_commands" /\ Len(last_cmds') = 1

\* the command names entity e
Names(cmd, e) == EntityMap_get(entity_map, cmd.entity_id) = Some(e)

\* the command is a SetParent of a mapped child, and e is the entity of the
\* parent it names or of the child's parent so far
Reparents(cmd, e) ==
    /\ cmd.cmd_type = SetParent
    /\ IsSome(EntityMap_get(entity_map, cmd.entity_id))
    /\ \/ EntityMap_get(entity_map, u32_from_le_bytes(cmd.payload, 0)) = Some(e)
       \/ LET child == Unwrap(EntityMap_get(entity_map, cmd.entity_id))
          IN  /\ World_contains(world, child)
              /\ EntityMap_get(entity_map, world.comps[child].Parent) = Some(e)

\* no dispatcher command writes the ModelMatrix of an entity, and a
\* component other than ModelMatrix and the child lists changes in a
\* dispatch only on the entity the command names
CommandsWriteTheirEntity ==
    OneCommand =>
        \A e \in Surviving :
            /\ world'.comps[e].ModelMatrix = world.comps[e].ModelMatrix
            /\ \A f \in PlainFields :
                   world'.comps[e][f] # world.comps[e][f] => Names(last_cmds'[1], e)

\* C29 as stated: ModelMatrix is written by no dispatcher command, every
\* other component of an entity changes only in a dispatch of a command
\* naming that entity, and no step of Engine::update changes Position,
\* Rotation, Scale, Velocity, Parent, Children, ExternalId or the meta
\* components
C29_AsStated ==
    [][ /\ CommandsWriteTheirEntity
        /\ OneCommand =>
              \A e \in Surviving : \A f \in ListFields :
                  world'.comps[e][f] # world.comps[e][f] => Names(last_cmds'[1], e)
        /\ last_op' = "update" =>
              /\ LiveEntitiesOf(world') = LiveEntitiesOf(world)
              /\ \A e \in Surviving : \A f \in PlainFields \cup ListFields :
                     world'.comps[e][f] = world.comps[e][f] ]_vars

\* C29, corrected: as above, except that the velocity system of each fixed
\* tick of Engine::update adds the entity's velocity step to its Position,
\* and that a SetParent changes the Children and OverflowChildren of the
\* parent it names and of the child's parent so far, not of the child
C29_WhoWritesWhat ==
    [][ /\ CommandsWriteTheirEntity
        /\ OneCommand =>
              \A e \in Surviving : \A f \in ListFields :
                  world'.comps[e][f] # world.comps[e][f] => Reparents(last_cmds'[1], e)
        /\ last_op' = "update" =>
              /\ LiveEntitiesOf(world') = LiveEntitiesOf(world)
              /\ \A e \in Surviving :
                     /\ \A f \in (PlainFields \ { "Position" }) \cup ListFields :
                            world'.comps[e][f] = world.comps[e][f]
                     /\ world'.comps[e].Position
                          = Vec3Add(world.comps[e].Position,
                                    Vec3Scale(world.comps[e].Velocity,
                                              tick_count' - tick_count)) ]_vars

\* a command has moved an entity that an update had placed: its ModelMatrix
\* is still the one the update computed, not the one of its new Position
C29_Witness ==
    /\ last_op = "process_commands"
    /\ Len(last_cmds) = 1
    /\ last_cmds[1].cmd_type = SetPosition
    /\ tick_count >= 1
    /\ \E e \in LiveEntitiesOf(world) :
           /\ EntityMap_get(entity_map, last_cmds[1].entity_id) = Some(e)
           /\ world.comps[e].Position = PayloadVec3(last_cmds[1])
           /\ world.comps[e].ModelMatrix # MAT4_IDENTITY
           /\ world.comps[e].ModelMatrix
                # from_scale_rotation_translation(world.comps[e].Scale,
                                                  world.comps[e].Rotation,
                                                  world.comps[e].Position)

\* an update has fired a tick and moved an entity by its velocity
C29_WitnessMoved ==
    /\ last_op = "update"
    /\ tick_count >= 1
    /\ \E e \in LiveEntitiesOf(world) :
           /\ world.comps[e].Velocity # Vec3(0, 0, 0)
           /\ world.comps[e].Position # Vec3(0, 0, 0)

\* ------------------------------------------------------------------------
\* Snapshot restore: claims
\* ------------------------------------------------------------------------

\* the bytes the components of a record with this mask take, bits 0..12
RECURSIVE PodBytes(_, _)
PodBytes(mask, bit) ==
    IF bit > 12 THEN 0
    ELSE (IF MaskBit(mask, bit) THEN ComponentSize[bit + 1] ELSE 0)
           + PodBytes(mask, bit + 1)

\* whether the n entity records declared from offset at on do not all fit
RECURSIVE RecordsCutShort(_, _, _)
RecordsCutShort(input, at, n) ==
    IF n = 0 THEN FALSE
    ELSE IF at + 10 > Len(input) THEN TRUE
    ELSE LET mask == u16_from_le_bytes(input, at + 8)
             fixed == at + 10 + PodBytes(mask, 0)
                        + (IF MaskBit(mask, 13) THEN 64 ELSE 0)
         IN  IF fixed > Len(input) THEN TRUE
             ELSE IF ~MaskBit(mask, 14) THEN RecordsCutShort(input, fixed, n - 1)
             ELSE IF fixed + 1 > Len(input) THEN TRUE
             ELSE IF fixed + 1 + 4 * input[fixed + 1] > Len(input) THEN TRUE
             ELSE RecordsCutShort(input, fixed + 1 + 4 * input[fixed + 1], n - 1)

\* an input whose header, map entries or entity records, as its own counts
\* and masks declare them, reach past its end
ReadsPastEnd(input) ==
    \/ Len(input) < 24
    \/ LET entity_count == u32_from_le_bytes(input, 16)
           map_len == u32_from_le_bytes(input, 20)
           room == (Len(input) - 24) \div 12
       IN  \/ map_len < 0
           \/ map_len > room
           \/ RecordsCutShort(input, 24 + 12 * map_len, entity_count)

WrongMagic(input) == Len(input) >= 4 /\ SubSeq(input, 1, 4) # SNAPSHOT_MAGIC

WrongVersion(input) == Len(input) >= 8 /\ u32_from_le_bytes(input, 4) # 1

\* a step that is a call of snapshot_restore
RestoreStep == last_op' = "snapshot_restore" /\ last_restore = << >>

\* C30: snapshot_restore returns false for an input with a wrong magic, a
\* version other than 1, or a field or component that reaches past the end
\* of the input, and whenever it returns false the world, the entity map,
\* the render state, the accumulator, tick_count and the listener are as
\* they were before the call
C30_RestoreRejects ==
    [][RestoreStep =>
         LET call == last_restore'[1]
         IN  /\ (WrongMagic(call.data) \/ WrongVersion(call.data)
                   \/ ReadsPastEnd(call.data)) => call.ret = "false"
             /\ call.ret = "false" =>
                  UNCHANGED << world, entity_map, render_state, accumulator,
                               tick_count, listener >>]_vars

\* the same on the targets and inputs where Vec::with_capacity does not
\* panic: 64-bit pointers, or a declared map length below 2^27
C30_RestoreRejectsWhereAllocated ==
    [][RestoreStep =>
         LET call == last_restore'[1]
             map_len == u32_from_le_bytes(call.data, 20)
         IN  (call.width = 64 \/ Len(call.data) < 24
                \/ (map_len >= 0 /\ map_len < 134217728)) =>
             /\ (WrongMagic(call.data) \/ WrongVersion(call.data)
                   \/ ReadsPastEnd(call.data)) => call.ret = "false"
             /\ call.ret = "false" =>
                  UNCHANGED << world, entity_map, render_state, accumulator,
                               tick_count, listener >>]_vars

\* a restore has rejected an input cut inside an entity record, in an engine
\* that had ticked and whose listener had moved
C30_Witness ==
    /\ last_op = "snapshot_restore"
    /\ last_restore[1].ret = "false"
    /\ Len(last_restore[1].data) > 40
    /\ ~WrongMagic(last_restore[1].data)
    /\ ReadsPastEnd(last_restore[1].data)
    /\ tick_count = 1
    /\ listener.pos # Vec3(0, 0, 0)

\* a restore has panicked on a header that declares 2^27 map entries or more
C30_WitnessPanic ==
    /\ last_op = "snapshot_restore"
    /\ last_restore[1].ret = "panic"
    /\ Len(last_restore[1].data) = 24

\* a restore has succeeded and replaced the state
C30_WitnessRestored ==
    /\ last_op = "snapshot_restore"
    /\ last_restore[1].ret = "true"
    /\ tick_count = SnapshotTick
    /\ EntityMap_get(entity_map, 0) # None

\* ------------------------------------------------------------------------
\* Snapshot round trip: claims
\* ------------------------------------------------------------------------

\* a step that is snapshot_restore(snapshot_create())
RoundTripStep == last_op' = "snapshot_roundtrip" /\ last_restore = << >>

\* the external ids mapped to a live entity
LiveIds(em, w) ==
    { id \in MappedIds(em) : World_contains(w, Unwrap(EntityMap_get(em, id))) }

\* the components of the entity a live id maps to
CompsOf(em, w, id) == w.comps[Unwrap(EntityMap_get(em, id))]

\* the ids in a component's OverflowChildren, none when it is absent
OverflowOf(comps) ==
    IF IsSome(comps.OverflowChildren)
    THEN { Unwrap(comps.OverflowChildren)[i] :
             i \in 1..Len(Unwrap(comps.OverflowChildren)) }
    ELSE { }

\* the transform, the Parent and the inline Children are the same
SameButOverflow(a, b) ==
    /\ a.Position = b.Position
    /\ a.Rotation = b.Rotation
    /\ a.Scale = b.Scale
    /\ a.ModelMatrix = b.ModelMatrix
    /\ a.Parent = b.Parent
    /\ Children_as_slice(a.Children) = Children_as_slice(b.Children)

\* C31: snapshot_restore(snapshot_create(state)) succeeds, keeps tick_count,
\* and every external id that mapped to a live entity maps to an entity with
\* the same Position, Rotation, Scale, ModelMatrix, Parent, inline Children
\* and OverflowChildren
C31_RoundTrip ==
    [][RoundTripStep =>
         /\ last_restore'[1].ret = "true"
         /\ tick_count' = tick_count
         /\ \A id \in LiveIds(entity_map, world) :
              /\ id \in LiveIds(entity_map', world')
              /\ SameButOverflow(CompsOf(entity_map, world, id),
                                 CompsOf(entity_map', world', id))
              /\ OverflowOf(CompsOf(entity_map, world, id))
                   = OverflowOf(CompsOf(entity_map', world', id))]_vars

\* the round trip keeps everything of C31 but OverflowChildren, which no
\* entity has afterwards
C31_RoundTripDropsOverflow ==
    [][RoundTripStep =>
         /\ last_restore'[1].ret = "true"
         /\ tick_count' = tick_count
         /\ \A id \in LiveIds(entity_map, world) :
              /\ id \in LiveIds(entity_map', world')
              /\ SameButOverflow(CompsOf(entity_map, world, id),
                                 CompsOf(entity_map', world', id))
              /\ OverflowOf(CompsOf(entity_map', world', id)) = { }]_vars

\* a round trip of an engine that has ticked, with a parent whose Children
\* is full and whose third child was in OverflowChildren
C31_Witness ==
    /\ last_op = "snapshot_roundtrip"
    /\ last_restore[1].ret = "true"
    /\ tick_count > 0
    /\ \E id \in LiveIds(entity_map, world) :
         /\ CompsOf(entity_map, world, id).Children.count = MAX_CHILDREN
         /\ \E c \in LiveIds(entity_map, world) :
              /\ CompsOf(entity_map, world, c).Parent = id
              /\ Listed(world, Unwrap(EntityMap_get(entity_map, id)), c) = 0

\* ------------------------------------------------------------------------
\* Swap-remove and slots (C32 .. C35, C38), over Spec
\* ------------------------------------------------------------------------

\* the six SoA fields of a slot, << >> where a buffer is shorter
RenderRecord(rs, slot) ==
    IF \/ slot < 0 \/ slot + 1 > Len(rs.gpu_transforms) \/ slot + 1 > Len(rs.gpu_bounds)
       \/ slot + 1 > Len(rs.gpu_render_meta) \/ slot + 1 > Len(rs.gpu_tex_indices)
       \/ slot + 1 > Len(rs.gpu_prim_params) \/ slot + 1 > Len(rs.gpu_entity_ids)
    THEN << >>
    ELSE << rs.gpu_transforms[slot + 1], rs.gpu_bounds[slot + 1],
            rs.gpu_render_meta[slot + 1], rs.gpu_tex_indices[slot + 1],
            rs.gpu_prim_params[slot + 1], rs.gpu_entity_ids[slot + 1] >>

\* the swaps of the loop of flush_pending_despawns over the given slots: for
\* each pass with slot # last, the entity taken from the last slot and the
\* slot it goes to
RECURSIVE FlushSwaps(_, _)
FlushSwaps(rs, slots) ==
    IF slots = << >> \/ rs.panicked THEN << >>
    ELSE LET after == flush_slot(rs, Head(slots))
             last == rs.gpu_count - 1
         IN  (IF ~after.panicked /\ Head(slots) # last
              THEN << [moved |-> rs.slot_to_entity[last + 1], to |-> Head(slots)] >>
              ELSE << >>)
               \o FlushSwaps(after, Tail(slots))

\* the swaps of flush_pending_despawns called on rs
SwapsOfFlush(rs) ==
    FlushSwaps([rs EXCEPT !.pending_despawns = << >>],
               SortDesc(DespawnSlots(rs, rs.pending_despawns)))

\* a step that is a flush_pending_despawns that returns
FlushStep == last_op' = "flush_pending_despawns" /\ ~render_state'.panicked

AllThreeDirty(rs, slot) ==
    /\ is_transform_dirty(rs.dirty_tracker, slot)
    /\ is_bounds_dirty(rs.dirty_tracker, slot)
    /\ is_meta_dirty(rs.dirty_tracker, slot)

\* every live entity with a slot after the flush had a slot before it, and
\* its record is the one it had
SurvivorsKeepRecords ==
    \A e \in LiveEntitiesOf(world) :
        IsSome(get_slot(render_state', e)) =>
            /\ IsSome(get_slot(render_state, e))
            /\ RenderRecord(render_state', Unwrap(get_slot(render_state', e)))
                 = RenderRecord(render_state, Unwrap(get_slot(render_state, e)))

\* every swap marks its destination in the three bitsets
SwapsMarkDirty ==
    \A i \in 1..Len(SwapsOfFlush(render_state)) :
        AllThreeDirty(render_state', SwapsOfFlush(render_state)[i].to)

\* no swap takes an entity that was pending despawn
SwapsMoveLive ==
    \A i \in 1..Len(SwapsOfFlush(render_state)) :
        \A k \in 1..Len(render_state.pending_despawns) :
            SwapsOfFlush(render_state)[i].moved # render_state.pending_despawns[k]

\* C32: flush_pending_despawns keeps the render record of every surviving
\* entity that has a slot afterwards, every swap takes from the last slot an
\* entity that is not pending despawn, and the destination of every swap is
\* marked dirty in the three bitsets
C32_FlushPreservesRecords ==
    [][FlushStep => SurvivorsKeepRecords /\ SwapsMoveLive /\ SwapsMarkDirty]_vars

\* the parts of C32 about the records and the dirty marks
C32_RecordsAndMarks ==
    [][FlushStep => SurvivorsKeepRecords /\ SwapsMarkDirty]_vars

\* the part of C32 about the entity a swap takes
C32_SwapsMoveLive == [][FlushStep => SwapsMoveLive]_vars

\* the live entities whose get_slot differs before and after the step
SlotChanged ==
    { e \in Surviving : get_slot(render_state', e) # get_slot(render_state, e) }

\* the entities the step has spawned
Spawned == LiveEntitiesOf(world') \ LiveEntitiesOf(world)

\* e held the last slot and a swap of this flush has moved it to its new slot
MovedBySwap(e) ==
    \E i \in 1..Len(SwapsOfFlush(render_state)) :
        /\ SwapsOfFlush(render_state)[i].moved = e
        /\ get_slot(render_state', e) = Some(SwapsOfFlush(render_state)[i].to)
        /\ IsSome(get_slot(render_state, e))
        /\ SwapsOfFlush(render_state)[i].to < Unwrap(get_slot(render_state, e))

\* outside flush_pending_despawns no live entity's slot changes, and a
\* command that spawns one entity gives it the slot gpu_count
SlotsStableOutsideFlush ==
    /\ last_op' # "flush_pending_despawns" => SlotChanged = { }
    /\ OneCommand =>
         \A e \in Spawned : get_slot(render_state', e) = Some(render_state.gpu_count)

\* C33: a live entity gets its slot at spawn, equal to gpu_count at that
\* moment; the slot changes only in flush_pending_despawns and only for an
\* entity moved from the last slot into a lower one; no command,
\* collect_dirty_staging, collect_gpu or update changes a slot
C33_SlotsStable ==
    [][/\ SlotsStableOutsideFlush
       /\ FlushStep => \A e \in SlotChanged : MovedBySwap(e)]_vars

\* the part of C33 outside flush_pending_despawns
C33_SlotsStableOutsideFlush == [][SlotsStableOutsideFlush]_vars

\* the pairs << d, e >> of a handle d pending despawn and a live entity e
\* spawned on the index of d
ReusedPending ==
    UNION { { << render_state.pending_despawns[k], e >> :
                e \in { x \in LiveEntitiesOf(world) :
                          /\ x.id = render_state.pending_despawns[k].id
                          /\ x # render_state.pending_despawns[k] } } :
            k \in 1..Len(render_state.pending_despawns) }

\* C34: when a despawned handle's index has been reused by a spawn before
\* the flush, the flush leaves the new entity with a slot and leaves no slot
\* below gpu_count that refers to the despawned handle
C34_FlushAfterReuse ==
    [][FlushStep =>
         \A p \in ReusedPending :
             /\ IsSome(get_slot(render_state', p[2]))
             /\ \A s \in 1..render_state'.gpu_count :
                    s <= Len(render_state'.slot_to_entity)
                        => render_state'.slot_to_entity[s] # p[1]]_vars

\* a step that is an Engine::update that returns
UpdateStep == last_op' = "update" /\ ~render_state'.panicked

\* C35: when Engine::update returns, pending_despawns is empty and gpu_count
\* counts no despawned entity, so every despawned entity's slot has been
\* released by the end of the next update
C35_UpdateReleasesSlots ==
    [][UpdateStep =>
         /\ render_state'.pending_despawns = << >>
         /\ render_state'.gpu_count <= Cardinality(LiveEntitiesOf(world'))]_vars

\* Engine::update leaves pending_despawns as it finds it, and sets gpu_count
\* to the number of live entities
C35_UpdateKeepsPending ==
    [][UpdateStep =>
         /\ render_state'.pending_despawns = render_state.pending_despawns
         /\ render_state'.gpu_count = Cardinality(LiveEntitiesOf(world'))]_vars

\* ------------------------------------------------------------------------
\* The entity map and the store (C36), over Spec
\* ------------------------------------------------------------------------

\* C36: every live entity is the entity that entity_map maps its ExternalId
\* to, so that every mapped id resolves to one live entity and every live
\* entity can be reached through its id
C36_LiveEntitiesMapped ==
    \A e \in LiveEntitiesOf(world) :
        EntityMap_get(entity_map, world.comps[e].ExternalId) = Some(e)

\* every mapped id resolves to a live entity that carries the id
C36_MappedIdsLive ==
    \A id \in MappedIds(entity_map) :
        /\ World_contains(world, Unwrap(EntityMap_get(entity_map, id)))
        /\ world.comps[Unwrap(EntityMap_get(entity_map, id))].ExternalId = id

\* ------------------------------------------------------------------------
\* The entity map alone (C37), over SpecMap
\* ------------------------------------------------------------------------

\* no id is on the free list twice
FreeListDistinct(em) ==
    \A i \in 1..Len(em.free_list) : \A j \in 1..Len(em.free_list) :
        em.free_list[i] = em.free_list[j] => i = j

\* the id the allocate of this step returns is mapped to no handle
AllocateReturnsUnmapped ==
    last_op' = "allocate" => EntityMap_get(entity_map, map_log'.last[1]) = None

\* C37: over every sequence of allocate, insert and remove, allocate never
\* returns an id that is mapped to a handle, and the free list never holds
\* an id twice, so that no id is returned twice without a remove in between
C37_AllocateFresh ==
    [][AllocateReturnsUnmapped /\ FreeListDistinct(entity_map')]_vars

\* the part of C37 about mapped ids
C37_AllocateReturnsUnmapped == [][AllocateReturnsUnmapped]_vars

\* the part of C37 about the free list
C37_FreeListDistinct == [][FreeListDistinct(entity_map')]_vars

\* the length in values of a buffer held as one element per slot
RECURSIVE ValuesIn(_)
ValuesIn(buf) == IF buf = << >> THEN 0 ELSE Len(Head(buf)) + ValuesIn(Tail(buf))

\* C38: in every state the length of each SoA buffer is its stride times
\* gpu_count: transforms 16, bounds 4, render_meta 2, tex_indices 1,
\* prim_params 8, entity_ids 1
C38_BufferLengths ==
    ~render_state.panicked =>
        /\ ValuesIn(render_state.gpu_transforms) = 16 * render_state.gpu_count
        /\ ValuesIn(render_state.gpu_bounds) = 4 * render_state.gpu_count
        /\ ValuesIn(render_state.gpu_render_meta) = 2 * render_state.gpu_count
        /\ Len(render_state.gpu_tex_indices) = render_state.gpu_count
        /\ ValuesIn(render_state.gpu_prim_params) = 8 * render_state.gpu_count
        /\ Len(render_state.gpu_entity_ids) = render_state.gpu_count

\* every call but flush_pending_despawns keeps the lengths right where they
\* are right
C38_BufferLengthsOutsideFlush ==
    [][(C38_BufferLengths /\ last_op' # "flush_pending_despawns")
         => C38_BufferLengths']_vars

\* C39: after a snapshot_restore that succeeds every mapped entity has a
\* render slot and gpu_count is the number of restored entities
C39_RestoredHaveSlots ==
    [][(RoundTripStep /\ last_restore'[1].ret = "true") =>
         /\ \A id \in LiveIds(entity_map', world') :
                IsSome(get_slot(render_state', Unwrap(EntityMap_get(entity_map', id))))
         /\ render_state'.gpu_count = Cardinality(LiveEntitiesOf(world'))]_vars

\* a snapshot_restore that succeeds leaves a new render state: no slot, no
\* pending despawn, gpu_count 0
C39_RestoredRenderStateNew ==
    [][(RoundTripStep /\ last_restore'[1].ret = "true") =>
         render_state' = RenderState_new]_vars

\* ------------------------------------------------------------------------
\* The consumer's progress (C40), over SpecRingFair
\* ------------------------------------------------------------------------

\* the published bytes of the stream
PublishedStream == SubSeq(stream, 1, n_pub)

\* the published bytes the consumer has not released
PublishedUnread == unread - (Len(stream) - n_pub)

\* a byte from_u8 rejects has been written
UnknownTypeWritten ==
    \E i \in 1..Len(stream) : ~IsSome(from_u8(stream[i]))

\* the k-th command the producer wrote whole has come out of a drain
ReturnedProduced(k) ==
    /\ k <= Len(produced)
    /\ \E j \in 1..Len(drained) : drained[j] = produced[k]

\* every whole command that is published comes out of a drain, unless a byte
\* of an unrecognized type code is in the stream
PublishedAreReturned ==
    \A k \in 1..MaxWrites :
        (pub_cmds >= k) ~> (ReturnedProduced(k) \/ UnknownTypeWritten)

\* the commands that lie whole, one after the other, from the start of the
\* published stream up to its first unknown type byte or truncated command
WholeCommands == parse_commands(PublishedStream)

\* the published bytes fill the data region: write_head has come round to
\* read_head, which is what drain's loop condition takes for an empty ring
RingFull == PublishedUnread = Cap

\* the k-th of them comes out of a drain, as the k-th command drained, unless
\* the producer has filled the ring
WholeAreReturned ==
    \A k \in 1..MaxWrites :
        (Len(WholeCommands) >= k)
            ~> \/ /\ Len(drained) >= k
                  /\ Len(WholeCommands) >= k
                  /\ drained[k] = WholeCommands[k]
               \/ RingFull

\* read_head rests on a published byte that from_u8 rejects
RestsOnUnknownType ==
    /\ PublishedUnread > 0
    /\ ~IsSome(from_u8(data[read_head]))

\* from then on no step moves read_head or returns a command
StalledStep ==
    RestsOnUnknownType =>
        /\ read_head' = read_head
        /\ drained' = drained
        /\ RestsOnUnknownType'

\* C40 as stated: under fair scheduling of drain() every complete valid
\* command the producer publishes is eventually returned by a drain, provided
\* no byte of an unrecognized type code is in the stream; and once read_head
\* rests on an unrecognized type byte no later drain returns a command or
\* moves read_head.
C40_PublishedAreReturned ==
    /\ PublishedAreReturned
    /\ [][StalledStep]_vars

\* C40, for the commands no truncated command precedes and a ring the
\* producer does not fill: under fair scheduling of drain() every command that
\* lies whole in the published stream, after whole valid commands only, is
\* eventually returned by a drain, unless the published bytes fill the data
\* region; and once read_head rests on an unrecognized type byte no later
\* drain returns a command or moves read_head, whatever the producer appends.
C40_WholeAreReturned ==
    /\ WholeAreReturned
    /\ [][StalledStep]_vars

\* C40 witness: a drain returned a published command and left read_head on an
\* unknown type byte; the producer then appended and published a whole
\* command, and a later drain that began there has finished
C40_Witness ==
    /\ RestsOnUnknownType
    /\ Len(drained) >= 1
    /\ Len(WholeCommands) = Len(drained)
    /\ Len(produced) > Len(drained)
    /\ pub_cmds = Len(produced)
    /\ n_drains >= 2
    /\ c_pc = "idle"
    /\ c_rh0 = read_head
    /\ c_wh = write_head

\* two commands came out of the drains, one of them written in two halves
\* and published half by half, from a ring the producer did not fill
C40_WitnessWhole ==
    /\ ~strict
    /\ c_pc = "idle"
    /\ Len(drained) >= 2
    /\ drained = WholeCommands
    /\ Len(produced) < Len(drained)
    /\ n_drains >= 2
    /\ ~UnknownTypeWritten

\* the producer filled the ring with whole commands and published them, and
\* a drain that began after that returned nothing
C40_WitnessFull ==
    /\ RingFull
    /\ Len(WholeCommands) > Len(drained)
    /\ c_pc = "idle"
    /\ c_seen = pub_cmds
    /\ n_drains >= 1

====
